---- MODULE Spec2Model ----
(***************************************************************************)
(* Storage core of the ECS world: entity allocator, archetypes and their   *)
(* transition edges, tables and columns, sparse sets, bundle registry and  *)
(* the structural mutations of EntityMut (insert_bundle, insert_relation,  *)
(* remove_bundle, remove_relation, remove_bundle_intersection, despawn).   *)
(*                                                                         *)
(* Vectors are sequences; the element with Rust index i is At(v, i).       *)
(* Option<T> is a sequence of length 0 (None) or 1 (Some).                 *)
(* An Entity is the pair <<id, generation>>; a slot is the pair            *)
(* <<kind id, Option<Entity>>>.                                            *)
(***************************************************************************)
EXTENDS Integers, Sequences, FiniteSets, TLC

VARIABLES
    entities,            \* World.entities: [meta, pending]
    archetypes,          \* World.archetypes: [archetypes, archetype_ids, archetype_component_count]
    storages,            \* World.storages: [tables: [tables, table_ids], sparse_sets]
    bundles,             \* World.bundles: [bundle_infos, bundle_ids, relation_bundle_ids]
    components,          \* World.components: the set of registered kind ids
    removed_components,  \* World.removed_components: slot -> Vec<Entity>
    change_tick,         \* World.change_tick
    steps,               \* the number of operations performed so far
    last                 \* history: the last completed operation, its arguments and result

vars == <<entities, archetypes, storages, bundles, components,
          removed_components, change_tick, steps, last>>

----------------------------------------------------------------------------
(* Bounds of the model *)

MaxSteps == 4         \* operations in one run
MaxEntities == 2      \* entity ids are 0 .. MaxEntities - 1
MaxGeneration == 1    \* an id is freed at most MaxGeneration times
MaxTick == 2          \* the change tick runs from 1 to MaxTick
MaxRemoved == 2       \* entries a removed-components list holds before it is drained
MaxGrow == 3          \* grow amounts 1 .. MaxGrow of a table on its own
MaxTableOps == 6      \* operations on a pair of tables on their own
MaxRegistrations == 3 \* registrations of bundles in a registry on its own
MaxRegistryOps == 3   \* calls on a registry of kinds and components on its own
MaxSortedKind == 5    \* kinds 1 .. MaxSortedKind in the lists given to sorted_remove

----------------------------------------------------------------------------
(* Option, Vec and map helpers *)

None == <<>>
Some(v) == <<v>>
IsSome(o) == o # <<>>

At(v, i) == v[i + 1]
SetAt(v, i, x) == [v EXCEPT ![i + 1] = x]
Indices(v) == 0 .. (Len(v) - 1)
Range(v) == {v[i] : i \in DOMAIN v}

\* Vec::swap_remove: the last element takes the place of element i
SwapRemove(v, i) ==
    LET n == Len(v) IN
    IF i = n - 1 THEN SubSeq(v, 1, n - 1)
    ELSE [SubSeq(v, 1, n - 1) EXCEPT ![i + 1] = v[n]]

\* map insert: the new entry replaces an older one with the same key
MapInsert(m, k, v) == (k :> v) @@ m

----------------------------------------------------------------------------
(* Kinds, slots, bundles *)

\* The registry of kinds: kind id k is KindInfos[k + 1].  Components A, B
\* live in tables, component S in a sparse set, R is a relation kind.
KindInfos ==
    << [name |-> "A", storage_type |-> "Table",     relation |-> FALSE],
       [name |-> "B", storage_type |-> "Table",     relation |-> FALSE],
       [name |-> "S", storage_type |-> "SparseSet", relation |-> FALSE],
       [name |-> "R", storage_type |-> "Table",     relation |-> TRUE] >>

KindIds == Indices(KindInfos)
RelationKinds == {k \in KindIds : At(KindInfos, k).relation}
StorageTypeOf(kind) == At(KindInfos, kind).storage_type

\* Typed bundles a caller uses: each is the ordered tuple of its component
\* kinds; one of them mixes a table kind with a sparse-set kind
BundleTypes == { <<>>, <<0>>, <<2>>, <<0, 1>>, <<0, 2>> }

EntityLess(a, b) == a[1] < b[1] \/ (a[1] = b[1] /\ a[2] < b[2])

\* derived Ord of (kind id, Option<Entity>): None sorts before Some
SlotLess(a, b) ==
    \/ a[1] < b[1]
    \/ /\ a[1] = b[1]
       /\ \/ a[2] = None /\ b[2] # None
          \/ a[2] # None /\ b[2] # None /\ EntityLess(a[2][1], b[2][1])

\* a sort that leaves the slots in the order they were pushed
SortSlots_unsorted(v) == v

SortSlots(v) == SortSeq(v, SlotLess)

\* the slots of a set in their order, as the columns of a table are visited
SlotSeq(S) ==
    CHOOSE v \in [1 .. Cardinality(S) -> S] :
        /\ Range(v) = S
        /\ \A i, j \in DOMAIN v : i < j => SlotLess(v[i], v[j])

ComponentTicksNew(t) == [added |-> t, changed |-> t]

----------------------------------------------------------------------------
(* Entities *)

NoLocation == [archetype_id |-> 0 - 1, index |-> 0 - 1]

\* Entities::get
Entities_get(ents, entity) ==
    IF entity[1] < Len(ents.meta)
    THEN LET meta == At(ents.meta, entity[1]) IN
         IF meta.generation # entity[2] \/ meta.location = NoLocation
         THEN None
         ELSE Some(meta.location)
    ELSE None

\* Entities::alloc: reuse the most recently freed id, else a fresh id
Entities_alloc(ents) ==
    IF ents.pending # <<>>
    THEN LET id == ents.pending[Len(ents.pending)] IN
         [entities |-> [ents EXCEPT !.pending = SubSeq(@, 1, Len(@) - 1)],
          entity |-> <<id, At(ents.meta, id).generation>>]
    ELSE [entities |-> [ents EXCEPT !.meta =
                           Append(@, [generation |-> 0, location |-> NoLocation])],
          entity |-> <<Len(ents.meta), 0>>]

\* Entities::free
Entities_free(ents, entity) ==
    LET meta == At(ents.meta, entity[1]) IN
    IF meta.generation # entity[2]
    THEN [entities |-> ents, location |-> None]
    ELSE [entities |-> [meta |-> SetAt(ents.meta, entity[1],
                                       [generation |-> meta.generation + 1,
                                        location |-> NoLocation]),
                        pending |-> Append(ents.pending, entity[1])],
          location |-> Some(meta.location)]

SetLocation(ents, id, location) ==
    [ents EXCEPT !.meta = SetAt(@, id, [At(@, id) EXCEPT !.location = location])]

\* handles that resolve to a location
LiveEntities ==
    {e \in {<<i, At(entities.meta, i).generation>> : i \in Indices(entities.meta)} :
        IsSome(Entities_get(entities, e))}

\* every handle ever handed out, live or stale
AllHandles ==
    UNION {{<<i, g>> : g \in 0 .. At(entities.meta, i).generation} :
              i \in Indices(entities.meta)}

----------------------------------------------------------------------------
(* Archetype *)

LastIndex(v, x) ==
    CHOOSE i \in DOMAIN v : v[i] = x /\ \A j \in DOMAIN v : v[j] = x => j <= i

\* the ArchetypeComponentInfo Archetype::new records for a slot: the table
\* slots are inserted first, the sparse-set slots after them
SlotInfo(table_components, sparse_set_components, table_archetype_components, sparse_set_archetype_components, slot) ==
    IF slot \in Range(sparse_set_components)
    THEN [storage_type |-> "SparseSet",
          archetype_component_id |->
              sparse_set_archetype_components[LastIndex(sparse_set_components, slot)]]
    ELSE [storage_type |-> "Table",
          archetype_component_id |->
              table_archetype_components[LastIndex(table_components, slot)]]

NoEdges == [add_bundle |-> <<>>, remove_bundle |-> <<>>,
            remove_bundle_intersection |-> <<>>]

\* Archetype::new
Archetype_new(id, table_id, table_components, sparse_set_components, table_archetype_components, sparse_set_archetype_components) ==
    LET slots == Range(table_components) \cup Range(sparse_set_components)
        info(slot) == SlotInfo(table_components, sparse_set_components,
                               table_archetype_components,
                               sparse_set_archetype_components, slot)
    IN [id |-> id,
        entities |-> <<>>,
        edges |-> NoEdges,
        table_info |-> [id |-> table_id, entity_rows |-> <<>>],
        table_components |-> table_components,
        sparse_set_components |-> sparse_set_components,
        components |-> [k \in {s[1] : s \in {t \in slots : t[2] = None}} |->
                           info(<<k, None>>)],
        relations |-> [kt \in {<<s[1], s[2][1]>> : s \in {t \in slots : t[2] # None}} |->
                           info(<<kt[1], Some(kt[2])>>)]]

\* Archetype::contains that knows the table slots only
Archetype_contains_table_slots(archetype, relation_kind, relation_target) ==
    <<relation_kind, relation_target>> \in Range(archetype.table_components)

\* Archetype::contains
Archetype_contains(archetype, relation_kind, relation_target) ==
    IF relation_target = None
    THEN relation_kind \in DOMAIN archetype.components
    ELSE <<relation_kind, relation_target[1]>> \in DOMAIN archetype.relations

\* Archetype::get_storage_type
Archetype_get_storage_type(archetype, relation_kind, relation_target) ==
    IF relation_target = None
    THEN IF relation_kind \in DOMAIN archetype.components
         THEN Some(archetype.components[relation_kind].storage_type) ELSE None
    ELSE IF <<relation_kind, relation_target[1]>> \in DOMAIN archetype.relations
         THEN Some(archetype.relations[<<relation_kind, relation_target[1]>>].storage_type)
         ELSE None

\* Archetype::get_archetype_component_id
Archetype_get_archetype_component_id(archetype, relation_kind, relation_target) ==
    IF relation_target = None
    THEN IF relation_kind \in DOMAIN archetype.components
         THEN Some(archetype.components[relation_kind].archetype_component_id) ELSE None
    ELSE IF <<relation_kind, relation_target[1]>> \in DOMAIN archetype.relations
         THEN Some(archetype.relations[<<relation_kind, relation_target[1]>>]
                       .archetype_component_id)
         ELSE None

\* Archetype::components: the slots the archetype advertises
Archetype_components(archetype) ==
    {<<k, None>> : k \in DOMAIN archetype.components}
        \cup {<<kt[1], Some(kt[2])>> : kt \in DOMAIN archetype.relations}

\* Archetype::allocate
Archetype_allocate(archetype, entity, table_row) ==
    [archetype |-> [archetype EXCEPT !.entities = Append(@, entity),
                                     !.table_info.entity_rows = Append(@, table_row)],
     location |-> [archetype_id |-> archetype.id, index |-> Len(archetype.entities)]]

\* Archetype::swap_remove that never reports the entity it swapped
Archetype_swap_remove_unreported(archetype, index) ==
    [archetype |-> [archetype EXCEPT !.entities = SwapRemove(@, index),
                                     !.table_info.entity_rows = SwapRemove(@, index)],
     swapped_entity |-> None,
     table_row |-> At(archetype.table_info.entity_rows, index)]

\* Archetype::swap_remove
Archetype_swap_remove(archetype, index) ==
    LET is_last == index = Len(archetype.entities) - 1
        ents == SwapRemove(archetype.entities, index)
    IN [archetype |-> [archetype EXCEPT !.entities = ents,
                                        !.table_info.entity_rows = SwapRemove(@, index)],
        swapped_entity |-> IF is_last THEN None ELSE Some(At(ents, index)),
        table_row |-> At(archetype.table_info.entity_rows, index)]

\* Archetype::set_entity_table_row that leaves the row as it was
Archetype_keep_entity_table_row(archetype, index, table_row) == archetype

\* Archetype::set_entity_table_row
Archetype_set_entity_table_row(archetype, index, table_row) ==
    [archetype EXCEPT !.table_info.entity_rows = SetAt(@, index, table_row)]

----------------------------------------------------------------------------
(* Archetypes *)

\* Archetypes::get_id_or_insert that never finds the identity in the map
Archetypes_always_insert(archs, table_id, table_components, sparse_set_components) ==
    LET id == Len(archs.archetypes)
        count == archs.archetype_component_count
        nt == Len(table_components)
        ns == Len(sparse_set_components)
    IN [archetypes |->
           [archetypes |-> Append(archs.archetypes,
                               Archetype_new(id, table_id, table_components,
                                             sparse_set_components,
                                             [i \in 1 .. nt |-> count + i - 1],
                                             [i \in 1 .. ns |-> count + nt + i - 1])),
            archetype_ids |-> MapInsert(archs.archetype_ids,
                                        <<table_components, sparse_set_components>>, id),
            archetype_component_count |-> count + nt + ns],
        id |-> id]

\* Archetypes::get_id_or_insert with the table id as a part of the identity
Archetypes_get_id_or_insert_by_table(archs, table_id, table_components, sparse_set_components) ==
    LET archetype_identity == <<table_components, sparse_set_components, table_id>> IN
    IF archetype_identity \in DOMAIN archs.archetype_ids
    THEN [archetypes |-> archs, id |-> archs.archetype_ids[archetype_identity]]
    ELSE [archetypes |->
             [Archetypes_always_insert(archs, table_id, table_components,
                                       sparse_set_components).archetypes
                 EXCEPT !.archetype_ids =
                     MapInsert(archs.archetype_ids, archetype_identity,
                               Len(archs.archetypes))],
          id |-> Len(archs.archetypes)]

\* Archetypes::get_id_or_insert that does not record the identity it inserts
Archetypes_get_id_or_insert_unrecorded(archs, table_id, table_components, sparse_set_components) ==
    LET archetype_identity == <<table_components, sparse_set_components>> IN
    IF archetype_identity \in DOMAIN archs.archetype_ids
    THEN [archetypes |-> archs, id |-> archs.archetype_ids[archetype_identity]]
    ELSE [archetypes |->
             [Archetypes_always_insert(archs, table_id, table_components,
                                       sparse_set_components).archetypes
                 EXCEPT !.archetype_ids = archs.archetype_ids],
          id |-> Len(archs.archetypes)]

\* Archetypes::get_id_or_insert that hands out ids without counting them
Archetypes_get_id_or_insert_uncounted(archs, table_id, table_components, sparse_set_components) ==
    LET archetype_identity == <<table_components, sparse_set_components>> IN
    IF archetype_identity \in DOMAIN archs.archetype_ids
    THEN [archetypes |-> archs, id |-> archs.archetype_ids[archetype_identity]]
    ELSE [archetypes |->
             [Archetypes_always_insert(archs, table_id, table_components,
                                       sparse_set_components).archetypes
                 EXCEPT !.archetype_component_count = archs.archetype_component_count],
          id |-> Len(archs.archetypes)]

\* Archetypes::get_id_or_insert
Archetypes_get_id_or_insert(archs, table_id, table_components, sparse_set_components) ==
    LET archetype_identity == <<table_components, sparse_set_components>> IN
    IF archetype_identity \in DOMAIN archs.archetype_ids
    THEN [archetypes |-> archs, id |-> archs.archetype_ids[archetype_identity]]
    ELSE LET id == Len(archs.archetypes)
             count == archs.archetype_component_count
             nt == Len(table_components)
             ns == Len(sparse_set_components)
             table_archetype_components == [i \in 1 .. nt |-> count + i - 1]
             sparse_set_archetype_components == [i \in 1 .. ns |-> count + nt + i - 1]
         IN [archetypes |->
                [archetypes |-> Append(archs.archetypes,
                                    Archetype_new(id, table_id, table_components,
                                                  sparse_set_components,
                                                  table_archetype_components,
                                                  sparse_set_archetype_components)),
                 archetype_ids |-> MapInsert(archs.archetype_ids, archetype_identity, id),
                 archetype_component_count |-> count + nt + ns],
             id |-> id]

\* the archetypes before Archetypes::default fills them
NoArchetypes ==
    [archetypes |-> <<>>, archetype_ids |-> <<>>, archetype_component_count |-> 0]

\* Archetypes::default that records the resource archetype in the identity map
Archetypes_default_recording_resource ==
    LET first == Archetypes_always_insert(NoArchetypes, 0, <<>>, <<>>).archetypes IN
    Archetypes_always_insert(first, 0, <<>>, <<>>).archetypes

\* Archetypes::default that pushes the resource archetype before it asks for
\* the empty one
Archetypes_default_resource_first ==
    Archetypes_always_insert(
        [NoArchetypes EXCEPT !.archetypes =
            <<Archetype_new(1, 0, <<>>, <<>>, <<>>, <<>>)>>],
        0, <<>>, <<>>).archetypes

\* Archetypes::default: the empty archetype through get_id_or_insert, then
\* the resource archetype pushed past the identity map
Archetypes_default ==
    LET first == Archetypes_get_id_or_insert(
                     [archetypes |-> <<>>, archetype_ids |-> <<>>,
                      archetype_component_count |-> 0], 0, <<>>, <<>>).archetypes
    IN [first EXCEPT !.archetypes =
            Append(@, Archetype_new(1, 0, <<>>, <<>>, <<>>, <<>>))]

\* ArchetypeGeneration::initial taken for the generation of every Archetypes
Archetypes_generation_initial(archs) == 0

\* Archetypes::generation
Archetypes_generation(archs) == Len(archs.archetypes)

\* Archetypes::get_2_mut: the two archetypes; panics when both indexes are
\* the same
Archetypes_get_2_mut(archs, a, b) ==
    [a |-> At(archs.archetypes, a), b |-> At(archs.archetypes, b), panic |-> a = b]

SetArchetype(archs, id, archetype) ==
    [archs EXCEPT !.archetypes = SetAt(@, id, archetype)]

----------------------------------------------------------------------------
(* Column and Table *)

GrowAmount == 64

\* Table::with_capacity
Table_with_capacity(capacity, grow_amount) ==
    [columns |-> <<>>, entities |-> <<>>,
     grow_amount |-> grow_amount, capacity |-> capacity]

\* Table::add_column
Table_add_column(table, slot) ==
    [table EXCEPT !.columns = MapInsert(@, slot, [data |-> <<>>, ticks |-> <<>>])]

\* a reserve that grows the table to exactly the rows asked for
Table_reserve_exact(table, amount) ==
    IF table.capacity - Len(table.entities) < amount
    THEN [table EXCEPT !.capacity = Len(table.entities) + amount]
    ELSE table

\* Table::reserve: capacity grows to the next multiple of grow_amount
Table_reserve(table, amount) ==
    LET available_space == table.capacity - Len(table.entities) IN
    IF available_space < amount
    THEN LET min_capacity == Len(table.entities) + amount IN
         [table EXCEPT !.capacity =
             ((min_capacity + table.grow_amount - 1) \div table.grow_amount)
                 * table.grow_amount]
    ELSE table

\* an allocate that puts the unwritten cell in front of every column
Table_allocate_in_front(table, entity) ==
    [table |-> [Table_reserve(table, 1) EXCEPT
                    !.entities = Append(@, entity),
                    !.columns = [s \in DOMAIN @ |->
                                    [data |-> <<0>> \o @[s].data,
                                     ticks |-> <<ComponentTicksNew(0)>> \o @[s].ticks]]],
     index |-> Len(table.entities)]

\* Table::allocate: one more row; every column gets an unwritten cell
\* (value 0) with ComponentTicks::new(0)
Table_allocate(table, entity) ==
    LET reserved == Table_reserve(table, 1) IN
    [table |-> [reserved EXCEPT
                    !.entities = Append(@, entity),
                    !.columns = [s \in DOMAIN @ |->
                                    [data |-> Append(@[s].data, 0),
                                     ticks |-> Append(@[s].ticks, ComponentTicksNew(0))]]],
     index |-> Len(table.entities)]

\* a column swap-remove that forgets the ticks vector
Column_swap_remove_data_only(column, row) ==
    [data |-> SwapRemove(column.data, row), ticks |-> column.ticks]

\* Column::swap_remove_unchecked and Column::swap_remove_and_forget_unchecked
Column_swap_remove(column, row) ==
    [data |-> SwapRemove(column.data, row), ticks |-> SwapRemove(column.ticks, row)]

\* a table swap-remove that leaves the row in the table
Table_swap_remove_keeping_row(table, row) ==
    [table |-> table, swapped_entity |-> None, dropped |-> <<>>]

\* the values Column::swap_remove_unchecked drops at a row of the given
\* columns of a table
DroppedAt(table, row, slots) ==
    [i \in 1 .. Cardinality(slots) |-> At(table.columns[SlotSeq(slots)[i]].data, row)]

\* Table::swap_remove_unchecked: every column drops its value at the row
Table_swap_remove_unchecked(table, row) ==
    LET is_last == row = Len(table.entities) - 1
        ents == SwapRemove(table.entities, row)
    IN [table |-> [table EXCEPT
                       !.columns = [s \in DOMAIN @ |-> Column_swap_remove(@[s], row)],
                       !.entities = ents],
        swapped_entity |-> IF is_last THEN None ELSE Some(At(ents, row)),
        dropped |-> DroppedAt(table, row, DOMAIN table.columns)]

\* The body shared by the three Table::move_to_* functions: the row leaves
\* the table by swap-remove, the new table gets a row, and every column of
\* both tables carries its value and ticks over
MoveRow(table, row, new_table) ==
    LET is_last == row = Len(table.entities) - 1
        ents == SwapRemove(table.entities, row)
        alloc == Table_allocate(new_table, At(table.entities, row))
        new_row == alloc.index
    IN [table |-> [table EXCEPT
                       !.entities = ents,
                       !.columns = [s \in DOMAIN @ |-> Column_swap_remove(@[s], row)]],
        new_table |-> [alloc.table EXCEPT
                       !.columns = [s \in DOMAIN @ |->
                           IF s \in DOMAIN table.columns
                           THEN [data |-> SetAt(@[s].data, new_row,
                                                At(table.columns[s].data, row)),
                                 ticks |-> SetAt(@[s].ticks, new_row,
                                                 At(table.columns[s].ticks, row))]
                           ELSE @[s]]],
        new_row |-> new_row,
        swapped_entity |-> IF is_last THEN None ELSE Some(At(ents, row))]

\* TableMoveResult, with the values the move dropped at the source
TableMoveResult(moved, dropped) ==
    [table |-> moved.table, new_table |-> moved.new_table, new_row |-> moved.new_row,
     swapped_entity |-> moved.swapped_entity, dropped |-> dropped]

\* a move that stamps fresh ticks on the row it lands in
move_to_and_reset_ticks(table, row, new_table) ==
    LET moved == MoveRow(table, row, new_table) IN
    TableMoveResult(
        [moved EXCEPT !.new_table.columns =
            [s \in DOMAIN @ |->
                [@[s] EXCEPT !.ticks = SetAt(@, moved.new_row, ComponentTicksNew(0))]]],
        <<>>)

\* Table::move_to_and_forget_missing_unchecked: every column forgets its
\* value at the row, a column new_table lacks included
move_to_and_forget_missing_unchecked(table, row, new_table) ==
    TableMoveResult(MoveRow(table, row, new_table), <<>>)

\* a move that forgets the values of the columns new_table lacks
move_to_and_leak_missing(table, row, new_table) ==
    TableMoveResult(MoveRow(table, row, new_table), <<>>)

\* Table::move_to_and_drop_missing_unchecked: a column new_table has forgets
\* its value at the row, a column new_table lacks drops it
move_to_and_drop_missing_unchecked(table, row, new_table) ==
    TableMoveResult(MoveRow(table, row, new_table),
                    DroppedAt(table, row,
                              DOMAIN table.columns \ DOMAIN new_table.columns))

\* a move that allocates the new row and carries no value over
move_to_superset_losing_values(table, row, new_table) ==
    TableMoveResult(
        [MoveRow(table, row, new_table) EXCEPT
            !.new_table = Table_allocate(new_table, At(table.entities, row)).table],
        <<>>)

\* Table::move_to_superset_unchecked: the unwrap needs every column of the
\* table in new_table
SupersetHolds(table, new_table) ==
    DOMAIN table.columns \subseteq DOMAIN new_table.columns

move_to_superset_unchecked(table, row, new_table) ==
    TableMoveResult(MoveRow(table, row, new_table), <<>>)

\* Table::get_column / has_column
Table_has_column(table, component_id, target) ==
    <<component_id, target>> \in DOMAIN table.columns

\* Tables::default
Tables_default ==
    [tables |-> <<Table_with_capacity(0, GrowAmount)>>, table_ids |-> <<>>]

\* Tables::get_id_or_insert (the hash of the slot list is taken as injective)
Tables_get_id_or_insert(tables, component_ids) ==
    IF component_ids \in DOMAIN tables.table_ids
    THEN [tables |-> tables, id |-> tables.table_ids[component_ids]]
    ELSE LET AddColumns[i \in 0 .. Len(component_ids)] ==
                 IF i = 0 THEN Table_with_capacity(0, GrowAmount)
                 ELSE Table_add_column(AddColumns[i - 1], component_ids[i])
         IN [tables |-> [tables |-> Append(tables.tables, AddColumns[Len(component_ids)]),
                         table_ids |-> MapInsert(tables.table_ids, component_ids,
                                                 Len(tables.tables))],
             id |-> Len(tables.tables)]

SetTable(tables, id, table) == [tables EXCEPT !.tables = SetAt(@, id, table)]

\* Tables::get_2_mut: the two tables; with a = b the index into the split
\* slice is out of bounds
Tables_get_2_mut(tables, a, b) ==
    [a |-> At(tables.tables, a), b |-> At(tables.tables, b), panic |-> a = b]

----------------------------------------------------------------------------
(* Sparse sets *)

\* SparseSets::get_or_insert
SparseSets_get_or_insert(sparse_sets, slot) ==
    IF slot \in DOMAIN sparse_sets THEN sparse_sets
    ELSE MapInsert(sparse_sets, slot, <<>>)

\* ComponentSparseSet::insert: a present entry is overwritten and its
\* changed tick stamped, an absent one is appended with both ticks stamped
ComponentSparseSet_insert(set, entity, value, tick) ==
    IF entity[1] \in DOMAIN set
    THEN [set EXCEPT ![entity[1]] = [value |-> value,
                                     ticks |-> [@.ticks EXCEPT !.changed = tick]]]
    ELSE MapInsert(set, entity[1], [value |-> value, ticks |-> ComponentTicksNew(tick)])

\* ComponentSparseSet::remove / remove_and_forget
ComponentSparseSet_remove(set, entity) ==
    [i \in DOMAIN set \ {entity[1]} |-> set[i]]

\* ComponentSparseSet::get_with_ticks
ComponentSparseSet_get(set, entity) ==
    IF entity[1] \in DOMAIN set THEN Some(set[entity[1]]) ELSE None

\* the value ComponentSparseSet::insert drops when it overwrites an entry and
\* ComponentSparseSet::remove drops when it removes one
ComponentSparseSet_dropped(set, entity) ==
    IF entity[1] \in DOMAIN set THEN <<set[entity[1]].value>> ELSE <<>>

----------------------------------------------------------------------------
(* Bundles *)

\* a dedup that removes nothing
deduped_unchanged(component_ids) == component_ids

\* the sorted and deduplicated copy initialize_bundle makes of the slots
deduped(component_ids) == SlotSeq(Range(component_ids))

\* initialize_bundle panics when the copy is shorter than the slot list:
\* the bundle lists a component kind more than once
initialize_bundle_panics(type_info) ==
    LET component_ids == [i \in DOMAIN type_info |-> <<type_info[i], None>>] IN
    Len(deduped(component_ids)) # Len(component_ids)

\* initialize_bundle: the slots in declaration order, each with target None
initialize_bundle(type_info, id) ==
    [id |-> id,
     relation_ids |-> [i \in DOMAIN type_info |-> <<type_info[i], None>>],
     storage_types |-> [i \in DOMAIN type_info |-> StorageTypeOf(type_info[i])]]

\* Bundles::init_info that gives every typed bundle the BundleId 0
Bundles_init_info_single_id(bndls, T) ==
    IF T \in DOMAIN bndls.bundle_ids
    THEN [bundles |-> bndls, info |-> At(bndls.bundle_infos, bndls.bundle_ids[T]),
          panic |-> FALSE]
    ELSE IF initialize_bundle_panics(T)
    THEN [bundles |-> bndls, info |-> None, panic |-> TRUE]
    ELSE [bundles |-> [bndls EXCEPT !.bundle_infos = Append(@, initialize_bundle(T, 0)),
                                    !.bundle_ids = MapInsert(@, T, Len(bndls.bundle_infos))],
          info |-> initialize_bundle(T, 0), panic |-> FALSE]

\* Bundles::init_info: a panic of initialize_bundle leaves the closure of
\* or_insert_with before the push and before the entry is filled
Bundles_init_info(bndls, T) ==
    IF T \in DOMAIN bndls.bundle_ids
    THEN [bundles |-> bndls, info |-> At(bndls.bundle_infos, bndls.bundle_ids[T]),
          panic |-> FALSE]
    ELSE IF initialize_bundle_panics(T)
    THEN [bundles |-> bndls, info |-> None, panic |-> TRUE]
    ELSE LET id == Len(bndls.bundle_infos)
             bundle_info == initialize_bundle(T, id)
         IN [bundles |-> [bndls EXCEPT !.bundle_infos = Append(@, bundle_info),
                                       !.bundle_ids = MapInsert(@, T, id)],
             info |-> bundle_info, panic |-> FALSE]

\* Bundles::init_relation_info with the kind alone as the key
Bundles_init_relation_info_by_kind(bndls, relation_kind, relation_target) ==
    LET key == <<relation_kind, None>> IN
    IF key \in DOMAIN bndls.relation_bundle_ids
    THEN [bundles |-> bndls,
          info |-> At(bndls.bundle_infos, bndls.relation_bundle_ids[key])]
    ELSE LET id == Len(bndls.bundle_infos)
             bundle_info == [id |-> id,
                             relation_ids |-> << <<relation_kind, relation_target>> >>,
                             storage_types |-> <<StorageTypeOf(relation_kind)>>]
         IN [bundles |-> [bndls EXCEPT !.bundle_infos = Append(@, bundle_info),
                                       !.relation_bundle_ids = MapInsert(@, key, id)],
             info |-> bundle_info]

\* Bundles::init_relation_info
Bundles_init_relation_info(bndls, relation_kind, relation_target) ==
    LET key == <<relation_kind, relation_target>> IN
    IF key \in DOMAIN bndls.relation_bundle_ids
    THEN [bundles |-> bndls,
          info |-> At(bndls.bundle_infos, bndls.relation_bundle_ids[key])]
    ELSE LET id == Len(bndls.bundle_infos)
             bundle_info == [id |-> id,
                             relation_ids |-> <<key>>,
                             storage_types |-> <<StorageTypeOf(relation_kind)>>]
         IN [bundles |-> [bndls EXCEPT !.bundle_infos = Append(@, bundle_info),
                                       !.relation_bundle_ids = MapInsert(@, key, id)],
             info |-> bundle_info]

----------------------------------------------------------------------------
(* The registry of relationship kinds and components (Components)          *)

\* a registry with nothing registered
Components_empty ==
    [components |-> <<>>, component_indices |-> <<>>, kinds |-> <<>>,
     dummy_infos |-> <<>>, typeid_to_component_id |-> <<>>, kind_indices |-> <<>>]

\* a new_relationship_kind that does not assert that the type token is new
Components_new_relationship_kind_unchecked(c, type_id) ==
    [components |-> [c EXCEPT
                        !.kind_indices = IF type_id = None THEN @
                                         ELSE MapInsert(@, type_id[1], Len(c.kinds)),
                        !.kinds = Append(@, [id |-> Len(c.kinds)])],
     id |-> Len(c.kinds), panic |-> FALSE]

\* Components::new_relationship_kind: the token is inserted before the
\* assert, the kind is pushed after it
Components_new_relationship_kind(c, type_id) ==
    LET id == Len(c.kinds)
        previously_inserted == type_id # None /\ type_id[1] \in DOMAIN c.kind_indices
        inserted == IF type_id = None THEN c
                    ELSE [c EXCEPT !.kind_indices = MapInsert(@, type_id[1], id)]
    IN IF previously_inserted
       THEN [components |-> inserted, id |-> id, panic |-> TRUE]
       ELSE [components |-> [inserted EXCEPT !.kinds = Append(@, [id |-> id])],
             id |-> id, panic |-> FALSE]

\* Components::default: the two predefined kinds
Components_default ==
    Components_new_relationship_kind(
        Components_new_relationship_kind(Components_empty, Some("HasComponent")).components,
        Some("HasResource")).components

\* Components::relkind_of_has_component / relkind_of_has_resource
relkind_of_has_component(c) == c.kind_indices["HasComponent"]
relkind_of_has_resource(c) == c.kind_indices["HasResource"]

\* Components::new_component_id: the info is pushed and the token inserted
\* before the assert
Components_new_component_id(c, type_id) ==
    LET component_id == Len(c.dummy_infos)
        pushed == [c EXCEPT !.dummy_infos =
                       Append(@, [static_type |-> type_id, id |-> component_id])]
    IN IF type_id = None
       THEN [components |-> pushed, id |-> component_id, panic |-> FALSE]
       ELSE [components |-> [pushed EXCEPT !.typeid_to_component_id =
                                MapInsert(@, type_id[1], component_id)],
             id |-> component_id,
             panic |-> type_id[1] \in DOMAIN c.typeid_to_component_id]

\* Components::type_id_to_component_id
Components_type_id_to_component_id(c, type_id) ==
    IF type_id \in DOMAIN c.typeid_to_component_id
    THEN Some(c.typeid_to_component_id[type_id]) ELSE None

\* a register_relationship that registers a relationship again
Components_register_relationship_again(c, relationship, type_id) ==
    [components |-> [c EXCEPT
                        !.component_indices = MapInsert(@, relationship, Len(c.components)),
                        !.components = Append(@, [id |-> Len(c.components),
                                                  relationship |-> relationship,
                                                  data |-> [type_id |-> type_id]])],
     ret |-> "Ok", id |-> Some(Len(c.components)), invoked |-> FALSE, panic |-> FALSE]

\* Components::register_relationship with a descriptor of the given type id:
\* Err for a registered relationship; for a typed descriptor and a DummyId
\* target the indexings and asserts come before the insertion
Components_register_relationship(c, relationship, type_id) ==
    LET new_id == Len(c.components)
        target == relationship.target
        checks_fail ==
            /\ type_id # None
            /\ target[1] = "DummyId"
            /\ \/ target[2] >= Len(c.dummy_infos)
               \/ /\ At(c.dummy_infos, target[2]).static_type # None
                  /\ At(c.dummy_infos, target[2]).static_type # type_id
               \/ type_id[1] \notin DOMAIN c.typeid_to_component_id
               \/ c.typeid_to_component_id[type_id[1]] # target[2]
    IN IF relationship \in DOMAIN c.component_indices
       THEN [components |-> c, ret |-> "ComponentAlreadyExists", id |-> None,
             invoked |-> FALSE, panic |-> FALSE]
       ELSE IF checks_fail
       THEN [components |-> c, ret |-> "Ok", id |-> None, invoked |-> FALSE,
             panic |-> TRUE]
       ELSE [components |-> [c EXCEPT
                                !.component_indices = MapInsert(@, relationship, new_id),
                                !.components = Append(@, [id |-> new_id,
                                                          relationship |-> relationship,
                                                          data |-> [type_id |-> type_id]])],
             ret |-> "Ok", id |-> Some(new_id), invoked |-> FALSE, panic |-> FALSE]

\* Components::get_relationship_info_or_insert_with: data_layout is the type
\* the closure describes; invoked tells whether the closure ran
Components_get_relationship_info_or_insert_with(c, relationship, data_layout) ==
    IF relationship \in DOMAIN c.component_indices
    THEN [components |-> c, ret |-> "Ok", id |-> Some(c.component_indices[relationship]),
          invoked |-> FALSE, panic |-> FALSE]
    ELSE LET rel_id == Len(c.components) IN
         [components |-> [c EXCEPT
                             !.component_indices = MapInsert(@, relationship, rel_id),
                             !.components = Append(@, [id |-> rel_id,
                                                       relationship |-> relationship,
                                                       data |-> [type_id |->
                                                                    Some(data_layout)]])],
          ret |-> "Ok", id |-> Some(rel_id), invoked |-> TRUE, panic |-> FALSE]

\* the body get_resource_info_or_insert_with and
\* get_component_info_or_insert_with share: the DummyId of the type, new
\* when the type has none, then the relationship of the kind to it
Components_get_info_or_insert_with(c, kind, type_id) ==
    LET found == Components_type_id_to_component_id(c, type_id)
        made == IF found = None THEN Components_new_component_id(c, Some(type_id))
                ELSE [components |-> c, id |-> found[1], panic |-> FALSE]
    IN Components_get_relationship_info_or_insert_with(
           made.components, [kind |-> kind, target |-> <<"DummyId", made.id>>], type_id)

\* Components::get_resource_info_or_insert_with
Components_get_resource_info_or_insert_with(c, type_id) ==
    Components_get_info_or_insert_with(c, relkind_of_has_resource(c), type_id)

\* Components::get_component_info_or_insert_with
Components_get_component_info_or_insert_with(c, type_id) ==
    Components_get_info_or_insert_with(c, relkind_of_has_component(c), type_id)

----------------------------------------------------------------------------
(* Archetype graph *)

\* a sorted_remove that removes nothing
sorted_remove_nothing(source, remove) == source

\* sorted_remove: one pass over source with a cursor into remove
sorted_remove(source, remove) ==
    LET Cursor(value, remove_index) ==
            CHOOSE j \in remove_index .. Len(remove) :
                /\ (j < Len(remove) => ~SlotLess(remove[j + 1], value))
                /\ \A k \in remove_index .. (j - 1) : SlotLess(remove[k + 1], value)
        Pass[i \in 0 .. Len(source)] ==
            IF i = 0 THEN [kept |-> <<>>, remove_index |-> 0]
            ELSE LET value == source[i]
                     remove_index == Cursor(value, Pass[i - 1].remove_index)
                     keep == IF remove_index < Len(remove)
                             THEN value # remove[remove_index + 1]
                             ELSE TRUE
                 IN [kept |-> IF keep THEN Append(Pass[i - 1].kept, value)
                              ELSE Pass[i - 1].kept,
                     remove_index |-> remove_index]
    IN Pass[Len(source)].kept

\* add_bundle_to_archetype
add_bundle_to_archetype(archs, stor, archetype_id, bundle_info) ==
    LET current_archetype == At(archs.archetypes, archetype_id) IN
    IF bundle_info.id \in DOMAIN current_archetype.edges.add_bundle
    THEN [archetypes |-> archs, storages |-> stor,
          id |-> current_archetype.edges.add_bundle[bundle_info.id].archetype_id]
    ELSE
    LET ids == bundle_info.relation_ids
        Has(slot) == Archetype_contains(current_archetype, slot[1], slot[2])
        bundle_status == [i \in DOMAIN ids |->
                             IF Has(ids[i]) THEN "Mutated" ELSE "Added"]
        IsNewTable(slot) == ~Has(slot) /\ StorageTypeOf(slot[1]) = "Table"
        IsNewSparse(slot) == ~Has(slot) /\ StorageTypeOf(slot[1]) = "SparseSet"
        new_table_components == SelectSeq(ids, IsNewTable)
        new_sparse_set_components == SelectSeq(ids, IsNewSparse)
        GetOrInsert[i \in 0 .. Len(new_sparse_set_components)] ==
            IF i = 0 THEN stor.sparse_sets
            ELSE SparseSets_get_or_insert(GetOrInsert[i - 1], new_sparse_set_components[i])
        sparse_sets == GetOrInsert[Len(new_sparse_set_components)]
        WithEdge(a, id) ==
            SetArchetype(a, archetype_id,
                [At(a.archetypes, archetype_id) EXCEPT !.edges.add_bundle =
                    MapInsert(@, bundle_info.id,
                              [archetype_id |-> id, bundle_status |-> bundle_status])])
    IN
    IF new_table_components = <<>> /\ new_sparse_set_components = <<>>
    THEN [archetypes |-> WithEdge(archs, archetype_id),
          storages |-> [stor EXCEPT !.sparse_sets = sparse_sets],
          id |-> archetype_id]
    ELSE
    LET table_components ==
            IF new_table_components = <<>>
            THEN current_archetype.table_components
            ELSE SortSlots(new_table_components \o current_archetype.table_components)
        table ==
            IF new_table_components = <<>>
            THEN [tables |-> stor.tables, id |-> current_archetype.table_info.id]
            ELSE Tables_get_id_or_insert(stor.tables, table_components)
        sparse_set_components ==
            IF new_sparse_set_components = <<>>
            THEN current_archetype.sparse_set_components
            ELSE SortSlots(new_sparse_set_components
                               \o current_archetype.sparse_set_components)
        new == Archetypes_get_id_or_insert(archs, table.id, table_components,
                                           sparse_set_components)
    IN [archetypes |-> WithEdge(new.archetypes, new.id),
        storages |-> [tables |-> table.tables, sparse_sets |-> sparse_sets],
        id |-> new.id]

\* the check that lets every strict removal through
removal_is_never_invalid(current_archetype, relation_ids, intersection) == FALSE

\* the check of remove_bundle_from_archetype on each slot of the bundle: a
\* slot the archetype lacks makes a strict removal invalid
removal_is_invalid(current_archetype, relation_ids, intersection) ==
    /\ ~intersection
    /\ \E i \in DOMAIN relation_ids :
           ~Archetype_contains(current_archetype, relation_ids[i][1], relation_ids[i][2])

\* remove_bundle_from_archetype
remove_bundle_from_archetype(archs, stor, archetype_id, bundle_info, intersection) ==
    LET current_archetype == At(archs.archetypes, archetype_id)
        cache == IF intersection
                 THEN current_archetype.edges.remove_bundle_intersection
                 ELSE current_archetype.edges.remove_bundle
        ids == bundle_info.relation_ids
        Has(slot) == Archetype_contains(current_archetype, slot[1], slot[2])
        WithEdge(a, result) ==
            SetArchetype(a, archetype_id,
                IF intersection
                THEN [At(a.archetypes, archetype_id) EXCEPT
                         !.edges.remove_bundle_intersection =
                             MapInsert(@, bundle_info.id, result)]
                ELSE [At(a.archetypes, archetype_id) EXCEPT
                         !.edges.remove_bundle = MapInsert(@, bundle_info.id, result)])
    IN
    IF bundle_info.id \in DOMAIN cache
    THEN [archetypes |-> WithEdge(archs, cache[bundle_info.id]), storages |-> stor,
          result |-> cache[bundle_info.id]]
    ELSE IF removal_is_invalid(current_archetype, ids, intersection)
    THEN [archetypes |-> SetArchetype(archs, archetype_id,
                            [current_archetype EXCEPT !.edges.remove_bundle =
                                MapInsert(@, bundle_info.id, None)]),
          storages |-> stor, result |-> None]
    ELSE
    LET IsTable(slot) == Has(slot) /\ StorageTypeOf(slot[1]) = "Table"
        IsSparse(slot) == Has(slot) /\ StorageTypeOf(slot[1]) = "SparseSet"
        removed_table_components == SortSlots(SelectSeq(ids, IsTable))
        removed_sparse_set_components == SortSlots(SelectSeq(ids, IsSparse))
        next_table_components ==
            sorted_remove(current_archetype.table_components, removed_table_components)
        next_sparse_set_components ==
            sorted_remove(current_archetype.sparse_set_components,
                          removed_sparse_set_components)
        next_table ==
            IF removed_table_components = <<>>
            THEN [tables |-> stor.tables, id |-> current_archetype.table_info.id]
            ELSE Tables_get_id_or_insert(stor.tables, next_table_components)
        new == Archetypes_get_id_or_insert(archs, next_table.id, next_table_components,
                                           next_sparse_set_components)
    IN [archetypes |-> WithEdge(new.archetypes, Some(new.id)),
        storages |-> [stor EXCEPT !.tables = next_table.tables],
        result |-> Some(new.id)]

----------------------------------------------------------------------------
(* Reading and writing component data *)

\* Column::initialize / Column::replace as write_relation uses them:
\* Added stamps both ticks, Mutated keeps added and stamps changed
Column_write(column, row, status, value, tick) ==
    [data |-> SetAt(column.data, row, value),
     ticks |-> SetAt(column.ticks, row,
                     IF status = "Added" THEN ComponentTicksNew(tick)
                     ELSE [At(column.ticks, row) EXCEPT !.changed = tick])]

\* the value Column::replace drops; Column::initialize drops none
Column_write_dropped(column, row, status) ==
    IF status = "Mutated" THEN <<At(column.data, row)>> ELSE <<>>

\* BundleInfo::write_relation
write_relation(bundle_info, sparse_sets, entity, table, table_row, bundle_status, relation_index, value, tick) ==
    LET slot == bundle_info.relation_ids[relation_index] IN
    IF bundle_info.storage_types[relation_index] = "Table"
    THEN IF slot \notin DOMAIN table.columns
         THEN [sparse_sets |-> sparse_sets, table |-> table, dropped |-> <<>>,
               panic |-> TRUE]
         ELSE [sparse_sets |-> sparse_sets,
               table |-> [table EXCEPT !.columns[slot] =
                             Column_write(@, table_row, bundle_status[relation_index],
                                          value, tick)],
               dropped |-> Column_write_dropped(table.columns[slot], table_row,
                                                bundle_status[relation_index]),
               panic |-> FALSE]
    ELSE IF slot \notin DOMAIN sparse_sets
         THEN [sparse_sets |-> sparse_sets, table |-> table, dropped |-> <<>>,
               panic |-> TRUE]
         ELSE [sparse_sets |-> [sparse_sets EXCEPT ![slot] =
                                   ComponentSparseSet_insert(@, entity, value, tick)],
               table |-> table,
               dropped |-> ComponentSparseSet_dropped(sparse_sets[slot], entity),
               panic |-> FALSE]

\* a write that stamps every value of the bundle as a new component
write_components_all_added(bundle_info, sparse_sets, entity, table, table_row, bundle_status, bundle, tick) ==
    LET Write[i \in 0 .. Len(bundle)] ==
            IF i = 0
            THEN [sparse_sets |-> sparse_sets, table |-> table, dropped |-> <<>>,
                  panic |-> FALSE]
            ELSE IF Write[i - 1].panic THEN Write[i - 1]
            ELSE [write_relation(bundle_info, Write[i - 1].sparse_sets, entity,
                                 Write[i - 1].table, table_row,
                                 [j \in DOMAIN bundle_status |-> "Added"],
                                 i, bundle[i], tick)
                     EXCEPT !.dropped = Write[i - 1].dropped \o @]
    IN Write[Len(bundle)]

\* BundleInfo::write_components: write_relation for each value, in bundle order
write_components(bundle_info, sparse_sets, entity, table, table_row, bundle_status, bundle, tick) ==
    LET Write[i \in 0 .. Len(bundle)] ==
            IF i = 0
            THEN [sparse_sets |-> sparse_sets, table |-> table, dropped |-> <<>>,
                  panic |-> FALSE]
            ELSE IF Write[i - 1].panic THEN Write[i - 1]
            ELSE [write_relation(bundle_info, Write[i - 1].sparse_sets, entity,
                                 Write[i - 1].table, table_row, bundle_status,
                                 i, bundle[i], tick)
                     EXCEPT !.dropped = Write[i - 1].dropped \o @]
    IN Write[Len(bundle)]

\* get_entity_data_and_ticks: Some([value, ticks]) or None
get_entity_data_and_ticks(archs, stor, relation_kind, relation_target, entity, location) ==
    LET archetype == At(archs.archetypes, location.archetype_id)
        slot == <<relation_kind, relation_target>>
    IN IF StorageTypeOf(relation_kind) = "Table"
       THEN LET table == At(stor.tables.tables, archetype.table_info.id) IN
            IF ~Table_has_column(table, relation_kind, relation_target) THEN None
            ELSE LET table_row == At(archetype.table_info.entity_rows, location.index) IN
                 Some([value |-> At(table.columns[slot].data, table_row),
                       ticks |-> At(table.columns[slot].ticks, table_row)])
       ELSE IF slot \in DOMAIN stor.sparse_sets
            THEN ComponentSparseSet_get(stor.sparse_sets[slot], entity)
            ELSE None

\* get_entity_data
get_entity_data(archs, stor, relation_kind, relation_target, entity, location) ==
    LET found == get_entity_data_and_ticks(archs, stor, relation_kind, relation_target,
                                           entity, location)
    IN IF found = None THEN None ELSE Some(found[1].value)

\* a removal that is not logged
RemovedPush_nothing(removed, slot, entity) == removed

\* the push onto the removed-components list of a slot
RemovedPush(removed, slot, entity) ==
    MapInsert(removed, slot,
              Append(IF slot \in DOMAIN removed THEN removed[slot] ELSE <<>>, entity))

\* take_entity_data that leaves a sparse-set value in its set
take_entity_data_keeping_sparse(stor, archetype, removed, relation_kind, relation_target, entity, location) ==
    LET slot == <<relation_kind, relation_target>>
        logged == RemovedPush(removed, slot, entity)
    IN IF StorageTypeOf(relation_kind) = "Table"
       THEN LET table == At(stor.tables.tables, archetype.table_info.id) IN
            IF ~Table_has_column(table, relation_kind, relation_target)
            THEN [storages |-> stor, removed |-> logged, value |-> 0, panic |-> TRUE]
            ELSE [storages |-> stor, removed |-> logged,
                  value |-> At(table.columns[slot].data,
                               At(archetype.table_info.entity_rows, location.index)),
                  panic |-> FALSE]
       ELSE IF slot \notin DOMAIN stor.sparse_sets
               \/ ComponentSparseSet_get(stor.sparse_sets[slot], entity) = None
            THEN [storages |-> stor, removed |-> logged, value |-> 0, panic |-> TRUE]
            ELSE [storages |-> stor, removed |-> logged,
                  value |-> stor.sparse_sets[slot][entity[1]].value,
                  panic |-> FALSE]

\* take_entity_data: logs the removal and hands out the value; a table value
\* stays in its row, a sparse-set value leaves its set
take_entity_data(stor, archetype, removed, relation_kind, relation_target, entity, location) ==
    LET slot == <<relation_kind, relation_target>>
        logged == RemovedPush(removed, slot, entity)
    IN IF StorageTypeOf(relation_kind) = "Table"
       THEN LET table == At(stor.tables.tables, archetype.table_info.id) IN
            IF ~Table_has_column(table, relation_kind, relation_target)
            THEN [storages |-> stor, removed |-> logged, value |-> 0, panic |-> TRUE]
            ELSE [storages |-> stor, removed |-> logged,
                  value |-> At(table.columns[slot].data,
                               At(archetype.table_info.entity_rows, location.index)),
                  panic |-> FALSE]
       ELSE IF slot \notin DOMAIN stor.sparse_sets
               \/ ComponentSparseSet_get(stor.sparse_sets[slot], entity) = None
            THEN [storages |-> stor, removed |-> logged, value |-> 0, panic |-> TRUE]
            ELSE [storages |-> [stor EXCEPT !.sparse_sets[slot] =
                                   ComponentSparseSet_remove(@, entity)],
                  removed |-> logged,
                  value |-> stor.sparse_sets[slot][entity[1]].value,
                  panic |-> FALSE]

----------------------------------------------------------------------------
(* World mutation *)

\* The part the insert and remove paths share: the entity leaves its
\* archetype by swap-remove, the entity swapped into its index gets the old
\* location, the table row moves when the tables differ, and the entity
\* whose table row was swapped has its entity_rows entry set to the old row.
\* move names the Table::move_to_* function of the calling path.
Table_move_to(move, table, row, new_table) ==
    CASE move = "superset" -> move_to_superset_unchecked(table, row, new_table)
      [] move = "forget_missing" ->
             move_to_and_forget_missing_unchecked(table, row, new_table)
      [] move = "drop_missing" ->
             move_to_and_drop_missing_unchecked(table, row, new_table)

\* a comparison that takes two table ids for different ones
same_table_never(old_table_id, new_table_id) == FALSE

\* the test `old_table_id == new_table_id` that picks the branch without a
\* table move
same_table(old_table_id, new_table_id) == old_table_id = new_table_id

MoveEntity(entity, old_location, new_archetype_id, ents, archs, stor, move) ==
    LET Removed(remove_result) ==
            LET ents1 == IF IsSome(remove_result.swapped_entity)
                         THEN SetLocation(ents, remove_result.swapped_entity[1][1],
                                          old_location)
                         ELSE ents
                archs1 == SetArchetype(archs, old_location.archetype_id,
                                       remove_result.archetype)
                old_table_row == remove_result.table_row
                old_table_id == remove_result.archetype.table_info.id
                new_archetype == At(archs1.archetypes, new_archetype_id)
                new_table_id == new_archetype.table_info.id
                SameTable(alloc) ==
                    [entities |-> SetLocation(ents1, entity[1], alloc.location),
                     archetypes |-> SetArchetype(archs1, new_archetype_id, alloc.archetype),
                     storages |-> stor,
                     new_location |-> alloc.location,
                     dropped |-> <<>>,
                     panic |-> FALSE]
                OtherTable(pair, move_result) ==
                    LET tables == SetTable(SetTable(stor.tables, old_table_id,
                                                    move_result.table),
                                           new_table_id, move_result.new_table)
                        alloc == Archetype_allocate(new_archetype, entity,
                                                    move_result.new_row)
                        archs2 == SetArchetype(archs1, new_archetype_id, alloc.archetype)
                        swapped_location ==
                            IF IsSome(move_result.swapped_entity)
                            THEN Entities_get(ents1, move_result.swapped_entity[1])
                            ELSE None
                        archs3 ==
                            IF IsSome(swapped_location)
                            THEN SetArchetype(archs2, swapped_location[1].archetype_id,
                                     Archetype_set_entity_table_row(
                                         At(archs2.archetypes,
                                            swapped_location[1].archetype_id),
                                         swapped_location[1].index, old_table_row))
                            ELSE archs2
                    IN [entities |-> SetLocation(ents1, entity[1], alloc.location),
                        archetypes |-> archs3,
                        storages |-> [stor EXCEPT !.tables = tables],
                        new_location |-> alloc.location,
                        dropped |-> move_result.dropped,
                        panic |-> \/ pair.panic
                                  \/ (IsSome(move_result.swapped_entity)
                                          /\ swapped_location = None)]
                Paired(pair) ==
                    OtherTable(pair, Table_move_to(move, pair.a, old_table_row, pair.b))
            IN IF same_table(old_table_id, new_table_id)
               THEN SameTable(Archetype_allocate(new_archetype, entity, old_table_row))
               ELSE Paired(Tables_get_2_mut(stor.tables, old_table_id, new_table_id))
    IN Removed(Archetype_swap_remove(At(archs.archetypes, old_location.archetype_id),
                                     old_location.index))

\* EntityMut::get_insert_bundle_info
get_insert_bundle_info(entity, current_location, ents, archs, stor, bundle_info) ==
    LET Added(added) ==
            LET edge == At(added.archetypes.archetypes, current_location.archetype_id)
                            .edges.add_bundle[bundle_info.id]
                old_table_id == At(added.archetypes.archetypes,
                                   current_location.archetype_id).table_info.id
                new_table_id == At(added.archetypes.archetypes, added.id).table_info.id
                old_table == At(added.storages.tables.tables, old_table_id)
                new_table == At(added.storages.tables.tables, new_table_id)
                Moved(moved) ==
                    [entities |-> moved.entities, archetypes |-> moved.archetypes,
                     storages |-> moved.storages, bundle_status |-> edge.bundle_status,
                     new_location |-> moved.new_location,
                     dropped |-> moved.dropped,
                     panic |-> \/ moved.panic
                               \/ (old_table_id # new_table_id
                                      /\ ~SupersetHolds(old_table, new_table))
                               \/ Archetypes_get_2_mut(moved.archetypes,
                                      current_location.archetype_id, added.id).panic]
            IN IF added.id = current_location.archetype_id
               THEN [entities |-> ents, archetypes |-> added.archetypes,
                     storages |-> added.storages, bundle_status |-> edge.bundle_status,
                     new_location |-> current_location, dropped |-> <<>>,
                     panic |-> FALSE]
               ELSE Moved(MoveEntity(entity, current_location, added.id, ents,
                                     added.archetypes, added.storages, "superset"))
    IN Added(add_bundle_to_archetype(archs, stor, current_location.archetype_id,
                                     bundle_info))

\* The world as one record, for the handlers below
World ==
    [entities |-> entities, archetypes |-> archetypes, storages |-> storages,
     bundles |-> bundles, components |-> components,
     removed_components |-> removed_components]

\* The tail of insert_bundle and insert_relation: move the entity, then
\* write the values at its table row
InsertWith(w, entity, location, bundle_info, bundle, tick) ==
    LET Moved(info) ==
            LET archetype == At(info.archetypes.archetypes,
                                info.new_location.archetype_id)
                table_id == archetype.table_info.id
                table_row == At(archetype.table_info.entity_rows, info.new_location.index)
                Written(written) ==
                    [world |-> [w EXCEPT
                                   !.entities = info.entities,
                                   !.archetypes = info.archetypes,
                                   !.storages = [tables |-> SetTable(info.storages.tables,
                                                                     table_id, written.table),
                                                 sparse_sets |-> written.sparse_sets]],
                     ret |-> None,
                     dropped |-> info.dropped \o written.dropped,
                     panic |-> info.panic \/ written.panic]
            IN Written(write_components(bundle_info, info.storages.sparse_sets, entity,
                                        At(info.storages.tables.tables, table_id),
                                        table_row, info.bundle_status, bundle, tick))
    IN Moved(get_insert_bundle_info(entity, location, w.entities, w.archetypes,
                                    w.storages, bundle_info))

\* EntityMut::insert_bundle
insert_bundle(w, entity, location, T, bundle, tick) ==
    LET init == Bundles_init_info(w.bundles, T) IN
    IF init.panic THEN [world |-> w, ret |-> None, dropped |-> <<>>, panic |-> TRUE]
    ELSE
    InsertWith([w EXCEPT !.bundles = init.bundles,
                         !.components = @ \cup Range(T)],
               entity, location, init.info, bundle, tick)

\* EntityMut::insert_relation
insert_relation(w, entity, location, kind, target, data, tick) ==
    LET init == Bundles_init_relation_info(w.bundles, kind, Some(target)) IN
    InsertWith([w EXCEPT !.bundles = init.bundles,
                         !.components = @ \cup {kind}],
               entity, location, init.info, <<data>>, tick)

\* The body remove_bundle and remove_relation share once the bundle info is
\* known: look up the destination, take the values out in bundle order,
\* move the entity
StrictRemoveWith(w, entity, old_location, bundle_info) ==
    LET Looked(rem) ==
            LET w1 == [w EXCEPT !.archetypes = rem.archetypes, !.storages = rem.storages]
                old_archetype == At(rem.archetypes.archetypes, old_location.archetype_id)
                ids == bundle_info.relation_ids
                Take[i \in 0 .. Len(ids)] ==
                    IF i = 0
                    THEN [storages |-> rem.storages, removed |-> w.removed_components,
                          values |-> <<>>, panic |-> FALSE]
                    ELSE IF Take[i - 1].panic THEN Take[i - 1]
                    ELSE LET taken == take_entity_data(Take[i - 1].storages, old_archetype,
                                          Take[i - 1].removed, ids[i][1], ids[i][2],
                                          entity, old_location)
                         IN [storages |-> taken.storages, removed |-> taken.removed,
                             values |-> Append(Take[i - 1].values, taken.value),
                             panic |-> taken.panic]
                Taken(took) ==
                    LET Moved(moved) ==
                            [world |-> [w1 EXCEPT !.entities = moved.entities,
                                                  !.archetypes = moved.archetypes,
                                                  !.storages = moved.storages,
                                                  !.removed_components = took.removed],
                             ret |-> Some(took.values),
                             dropped |-> moved.dropped,
                             panic |-> moved.panic]
                    IN IF took.panic
                       THEN [world |-> w1, ret |-> None, dropped |-> <<>>, panic |-> TRUE]
                       ELSE Moved(MoveEntity(entity, old_location, rem.result[1],
                                             w.entities, rem.archetypes, took.storages,
                                             "forget_missing"))
            IN IF rem.result = None \/ rem.result[1] = old_location.archetype_id
               THEN [world |-> w1, ret |-> None, dropped |-> <<>>, panic |-> FALSE]
               ELSE Taken(Take[Len(ids)])
    IN Looked(remove_bundle_from_archetype(w.archetypes, w.storages,
                                           old_location.archetype_id, bundle_info, FALSE))

\* EntityMut::remove_bundle
remove_bundle(w, entity, location, T) ==
    LET init == Bundles_init_info(w.bundles, T) IN
    IF init.panic THEN [world |-> w, ret |-> None, dropped |-> <<>>, panic |-> TRUE]
    ELSE
    StrictRemoveWith([w EXCEPT !.bundles = init.bundles,
                               !.components = @ \cup Range(T)],
                     entity, location, init.info)

\* EntityMut::remove_relation: None at once for a kind never registered
remove_relation(w, entity, location, kind, target) ==
    IF kind \notin w.components
    THEN [world |-> w, ret |-> None, dropped |-> <<>>, panic |-> FALSE]
    ELSE LET init == Bundles_init_relation_info(w.bundles, kind, Some(target)) IN
         StrictRemoveWith([w EXCEPT !.bundles = init.bundles],
                          entity, location, init.info)

\* EntityMut::remove_bundle_intersection
remove_bundle_intersection(w, entity, old_location, T) ==
    LET Looked(init, rem) ==
            LET w1 == [w EXCEPT !.bundles = init.bundles,
                                !.components = @ \cup Range(T),
                                !.archetypes = rem.archetypes,
                                !.storages = rem.storages]
                old_archetype == At(rem.archetypes.archetypes, old_location.archetype_id)
                ids == init.info.relation_ids
                Drop[i \in 0 .. Len(ids)] ==
                    IF i = 0
                    THEN [sparse_sets |-> rem.storages.sparse_sets,
                          removed |-> w.removed_components, dropped |-> <<>>,
                          panic |-> FALSE]
                    ELSE IF Drop[i - 1].panic
                            \/ ~Archetype_contains(old_archetype, ids[i][1], ids[i][2])
                    THEN Drop[i - 1]
                    ELSE IF Archetype_get_storage_type(old_archetype, ids[i][1], ids[i][2])
                                = Some("SparseSet")
                    THEN IF ids[i] \notin DOMAIN Drop[i - 1].sparse_sets
                         THEN [Drop[i - 1] EXCEPT !.panic = TRUE]
                         ELSE [sparse_sets |->
                                   [Drop[i - 1].sparse_sets EXCEPT ![ids[i]] =
                                       ComponentSparseSet_remove(@, entity)],
                               removed |-> RemovedPush(Drop[i - 1].removed, ids[i], entity),
                               dropped |-> Drop[i - 1].dropped
                                   \o ComponentSparseSet_dropped(
                                          Drop[i - 1].sparse_sets[ids[i]], entity),
                               panic |-> FALSE]
                    ELSE [Drop[i - 1] EXCEPT
                             !.removed = RemovedPush(Drop[i - 1].removed, ids[i], entity)]
                Dropped(dropped) ==
                    LET Moved(moved) ==
                            [world |-> [w1 EXCEPT !.entities = moved.entities,
                                                  !.archetypes = moved.archetypes,
                                                  !.storages = moved.storages,
                                                  !.removed_components = dropped.removed],
                             ret |-> None,
                             dropped |-> dropped.dropped \o moved.dropped,
                             panic |-> moved.panic]
                    IN IF dropped.panic
                       THEN [world |-> w1, ret |-> None, dropped |-> <<>>, panic |-> TRUE]
                       ELSE Moved(MoveEntity(entity, old_location, rem.result[1],
                                      w.entities, rem.archetypes,
                                      [rem.storages EXCEPT
                                          !.sparse_sets = dropped.sparse_sets],
                                      "drop_missing"))
            IN IF rem.result = None
               THEN [world |-> w1, ret |-> None, dropped |-> <<>>, panic |-> TRUE]
               ELSE IF rem.result[1] = old_location.archetype_id
               THEN [world |-> w1, ret |-> None, dropped |-> <<>>, panic |-> FALSE]
               ELSE Dropped(Drop[Len(ids)])
    IN IF Bundles_init_info(w.bundles, T).panic
       THEN [world |-> w, ret |-> None, dropped |-> <<>>, panic |-> TRUE]
       ELSE Looked(Bundles_init_info(w.bundles, T),
                   remove_bundle_from_archetype(w.archetypes, w.storages,
                       old_location.archetype_id,
                       Bundles_init_info(w.bundles, T).info, TRUE))

\* a despawn that returns before it frees the entity
despawn_without_free(w, entity) ==
    [world |-> w, ret |-> None, dropped |-> <<>>, panic |-> FALSE]

\* EntityMut::despawn
despawn(w, entity) ==
    LET freed == Entities_free(w.entities, entity) IN
    IF freed.location = None
    THEN [world |-> w, ret |-> None, dropped |-> <<>>, panic |-> TRUE]
    ELSE
    LET location == freed.location[1]
        archetype == At(w.archetypes.archetypes, location.archetype_id)
        slots == Archetype_components(archetype)
        removed == [s \in DOMAIN w.removed_components \cup slots |->
                       IF s \in slots
                       THEN Append(IF s \in DOMAIN w.removed_components
                                   THEN w.removed_components[s] ELSE <<>>, entity)
                       ELSE w.removed_components[s]]
        remove_result == Archetype_swap_remove(archetype, location.index)
        ents1 == IF IsSome(remove_result.swapped_entity)
                 THEN SetLocation(freed.entities, remove_result.swapped_entity[1][1],
                                  location)
                 ELSE freed.entities
        archs1 == SetArchetype(w.archetypes, location.archetype_id,
                               remove_result.archetype)
        table_row == remove_result.table_row
        sparse == Range(archetype.sparse_set_components)
        sparse_sets == [s \in DOMAIN w.storages.sparse_sets |->
                           IF s \in sparse
                           THEN ComponentSparseSet_remove(w.storages.sparse_sets[s], entity)
                           ELSE w.storages.sparse_sets[s]]
        held == {s \in sparse \cap DOMAIN w.storages.sparse_sets :
                    entity[1] \in DOMAIN w.storages.sparse_sets[s]}
        sparse_dropped == [i \in 1 .. Cardinality(held) |->
                              w.storages.sparse_sets[SlotSeq(held)[i]][entity[1]].value]
        table_id == archetype.table_info.id
        table_removed == Table_swap_remove_unchecked(
                             At(w.storages.tables.tables, table_id), table_row)
        moved_entity == table_removed.swapped_entity
        moved_location == IF IsSome(moved_entity)
                          THEN Entities_get(ents1, moved_entity[1]) ELSE None
        archs2 == IF IsSome(moved_location)
                  THEN SetArchetype(archs1, moved_location[1].archetype_id,
                           Archetype_set_entity_table_row(
                               At(archs1.archetypes, moved_location[1].archetype_id),
                               moved_location[1].index, table_row))
                  ELSE archs1
    IN [world |-> [w EXCEPT !.entities = ents1,
                            !.archetypes = archs2,
                            !.storages = [tables |-> SetTable(w.storages.tables, table_id,
                                                              table_removed.table),
                                          sparse_sets |-> sparse_sets],
                            !.removed_components = removed],
        ret |-> None,
        dropped |-> sparse_dropped \o table_removed.dropped,
        panic |-> \/ ~(sparse \subseteq DOMAIN w.storages.sparse_sets)
                  \/ (IsSome(moved_entity) /\ moved_location = None)]

\* World::spawn: a fresh entity with a row in the empty archetype and table
spawn(w) ==
    LET alloc == Entities_alloc(w.entities)
        entity == alloc.entity
        empty == At(w.archetypes.archetypes, 0)
        table_id == empty.table_info.id
        row == Table_allocate(At(w.storages.tables.tables, table_id), entity)
        placed == Archetype_allocate(empty, entity, row.index)
    IN [world |-> [w EXCEPT
                      !.entities = SetLocation(alloc.entities, entity[1], placed.location),
                      !.archetypes = SetArchetype(@, 0, placed.archetype),
                      !.storages.tables = SetTable(@, table_id, row.table)],
        ret |-> Some(entity),
        dropped |-> <<>>,
        panic |-> FALSE]

----------------------------------------------------------------------------
(* Lookups through the world *)

\* the location World::get_entity resolves a handle to
LocationIn(w, entity) == Entities_get(w.entities, entity)

\* the slots of the archetype the entity is in
SlotSetIn(w, entity) ==
    Archetype_components(At(w.archetypes.archetypes,
                            LocationIn(w, entity)[1].archetype_id))

\* EntityRef::get / get_relation with their ticks: None for a stale handle
\* and for a kind that was never registered
GetWithTicksIn(w, entity, slot) ==
    IF LocationIn(w, entity) = None \/ slot[1] \notin w.components THEN None
    ELSE get_entity_data_and_ticks(w.archetypes, w.storages, slot[1], slot[2],
                                   entity, LocationIn(w, entity)[1])

\* a lookup that treats a relation whose target is no longer live as absent
GetIn_live_targets_only(w, entity, slot) ==
    IF LocationIn(w, entity) = None \/ slot[1] \notin w.components THEN None
    ELSE IF slot[2] # None /\ LocationIn(w, slot[2][1]) = None THEN None
    ELSE get_entity_data(w.archetypes, w.storages, slot[1], slot[2],
                         entity, LocationIn(w, entity)[1])

GetIn(w, entity, slot) ==
    IF LocationIn(w, entity) = None \/ slot[1] \notin w.components THEN None
    ELSE get_entity_data(w.archetypes, w.storages, slot[1], slot[2],
                         entity, LocationIn(w, entity)[1])

\* the table and the row of the table the entity's components are in
TableRowIn(w, entity) ==
    IF LocationIn(w, entity) = None THEN None
    ELSE LET location == LocationIn(w, entity)[1]
             archetype == At(w.archetypes.archetypes, location.archetype_id)
         IN Some([table_id |-> archetype.table_info.id,
                  table_row |-> At(archetype.table_info.entity_rows, location.index)])

\* what the entity holds: its slots with value and ticks
CellsIn(w, entity) ==
    [s \in SlotSetIn(w, entity) |-> GetWithTicksIn(w, entity, s)]

\* the list of the removed-components log for a slot
RemovedIn(w, slot) ==
    IF slot \in DOMAIN w.removed_components THEN w.removed_components[slot] ELSE <<>>

----------------------------------------------------------------------------
(* The state machine *)

\* the values a caller supplies for bundle T in call number v: one per kind,
\* and different from the values of every other call
BundleValues(T, v) == [i \in DOMAIN T |-> (T[i] + 1) * 100 + v]

\* The record of a call: the operation, its entity and bundle (as slots),
\* the values supplied, what it returned, the values the storage dropped
\* during it, whether it panicked, the cells,
\* location and table row of the entity before the call, and the call
\* before it (operation, entity, bundle, cells before)
NoPrev == [op |-> "new", entity |-> <<>>, bundle |-> <<>>, pre |-> <<>>]

NoOp == [op |-> "new", entity |-> None, bundle |-> <<>>, values |-> <<>>,
         ret |-> None, dropped |-> <<>>, panic |-> FALSE, pre |-> <<>>,
         loc |-> None, row |-> None, prev |-> NoPrev]

Prev == [op |-> last.op, entity |-> last.entity, bundle |-> last.bundle,
         pre |-> last.pre]

\* The world after World::default and the registration of the sparse-set
\* kinds: a kind is stored in a sparse set only when it was registered so
\* before its first use.
Init ==
    /\ entities = [meta |-> <<>>, pending |-> <<>>]
    /\ archetypes = Archetypes_default
    /\ storages = [tables |-> Tables_default, sparse_sets |-> <<>>]
    /\ bundles = [bundle_infos |-> <<>>, bundle_ids |-> <<>>,
                  relation_bundle_ids |-> <<>>]
    /\ components = {k \in KindIds : StorageTypeOf(k) = "SparseSet"}
    /\ removed_components = <<>>
    /\ change_tick = 1
    /\ steps = 0
    /\ last = NoOp

\* the step every handler ends with: the world it leaves and the record of
\* the call; a panic ends the run
Commit(r, record) ==
    IF r.panic
    THEN /\ last' = [record EXCEPT !.panic = TRUE]
         /\ steps' = steps + 1
         /\ UNCHANGED <<entities, archetypes, storages, bundles, components,
                        removed_components, change_tick>>
    ELSE /\ entities' = r.world.entities
         /\ archetypes' = r.world.archetypes
         /\ storages' = r.world.storages
         /\ bundles' = r.world.bundles
         /\ components' = r.world.components
         /\ removed_components' = r.world.removed_components
         /\ \A s \in DOMAIN removed_components' :
                Len(removed_components'[s]) <= MaxRemoved
         /\ last' = [record EXCEPT !.ret = r.ret, !.dropped = r.dropped]
         /\ steps' = steps + 1
         /\ UNCHANGED change_tick

Running == ~last.panic /\ steps < MaxSteps

Spawn ==
    /\ Running
    /\ Len(entities.meta) < MaxEntities \/ entities.pending # <<>>
    /\ Commit(spawn(World), [NoOp EXCEPT !.op = "spawn", !.prev = Prev])

Despawn(e) ==
    /\ Running
    /\ e[2] < MaxGeneration
    /\ Commit(despawn(World, e),
              [NoOp EXCEPT !.op = "despawn", !.entity = Some(e),
                           !.pre = CellsIn(World, e),
                           !.loc = LocationIn(World, e),
                           !.row = TableRowIn(World, e), !.prev = Prev])

InsertBundle(e, T) ==
    /\ Running
    /\ Commit(insert_bundle(World, e, LocationIn(World, e)[1], T,
                            BundleValues(T, steps + 1), change_tick),
              [NoOp EXCEPT !.op = "insert_bundle", !.entity = Some(e),
                           !.bundle = [i \in DOMAIN T |-> <<T[i], None>>],
                           !.values = BundleValues(T, steps + 1),
                           !.pre = CellsIn(World, e),
                           !.loc = LocationIn(World, e),
                           !.row = TableRowIn(World, e), !.prev = Prev])

InsertRelation(e, kind, target) ==
    /\ Running
    /\ Commit(insert_relation(World, e, LocationIn(World, e)[1], kind, target,
                              BundleValues(<<kind>>, steps + 1)[1], change_tick),
              [NoOp EXCEPT !.op = "insert_relation", !.entity = Some(e),
                           !.bundle = << <<kind, Some(target)>> >>,
                           !.values = BundleValues(<<kind>>, steps + 1),
                           !.pre = CellsIn(World, e),
                           !.loc = LocationIn(World, e),
                           !.row = TableRowIn(World, e), !.prev = Prev])

RemoveBundle(e, T) ==
    /\ Running
    /\ Commit(remove_bundle(World, e, LocationIn(World, e)[1], T),
              [NoOp EXCEPT !.op = "remove_bundle", !.entity = Some(e),
                           !.bundle = [i \in DOMAIN T |-> <<T[i], None>>],
                           !.pre = CellsIn(World, e),
                           !.loc = LocationIn(World, e),
                           !.row = TableRowIn(World, e), !.prev = Prev])

RemoveRelation(e, kind, target) ==
    /\ Running
    /\ Commit(remove_relation(World, e, LocationIn(World, e)[1], kind, target),
              [NoOp EXCEPT !.op = "remove_relation", !.entity = Some(e),
                           !.bundle = << <<kind, Some(target)>> >>,
                           !.pre = CellsIn(World, e),
                           !.loc = LocationIn(World, e),
                           !.row = TableRowIn(World, e), !.prev = Prev])

RemoveBundleIntersection(e, T) ==
    /\ Running
    /\ Commit(remove_bundle_intersection(World, e, LocationIn(World, e)[1], T),
              [NoOp EXCEPT !.op = "remove_bundle_intersection", !.entity = Some(e),
                           !.bundle = [i \in DOMAIN T |-> <<T[i], None>>],
                           !.pre = CellsIn(World, e),
                           !.loc = LocationIn(World, e),
                           !.row = TableRowIn(World, e), !.prev = Prev])

\* World::increment_change_tick
IncrementChangeTick ==
    /\ Running
    /\ change_tick < MaxTick
    /\ change_tick' = change_tick + 1
    /\ last' = [NoOp EXCEPT !.op = "increment_change_tick", !.prev = Prev]
    /\ steps' = steps + 1
    /\ UNCHANGED <<entities, archetypes, storages, bundles, components,
                   removed_components>>

\* World::clear_trackers: the removed-components log is drained
ClearTrackers ==
    /\ Running
    /\ removed_components # <<>>
    /\ removed_components' = <<>>
    /\ last' = [NoOp EXCEPT !.op = "clear_trackers", !.prev = Prev]
    /\ steps' = steps + 1
    /\ UNCHANGED <<entities, archetypes, storages, bundles, components, change_tick>>

Next ==
    \/ Spawn
    \/ \E e \in LiveEntities : Despawn(e)
    \/ \E e \in LiveEntities, T \in BundleTypes : InsertBundle(e, T)
    \/ \E e \in LiveEntities, k \in RelationKinds, t \in LiveEntities :
           InsertRelation(e, k, t)
    \/ \E e \in LiveEntities, T \in BundleTypes : RemoveBundle(e, T)
    \/ \E e \in LiveEntities, k \in RelationKinds, t \in AllHandles :
           RemoveRelation(e, k, t)
    \/ \E e \in LiveEntities, T \in BundleTypes : RemoveBundleIntersection(e, T)
    \/ IncrementChangeTick
    \/ ClearTrackers

Spec == Init /\ [][Next]_vars

----------------------------------------------------------------------------
(* Two tables on their own, as tests::table drives one: rows are allocated  *)
(* and written, swap-removed, and moved from one table to the other.  The   *)
(* second table has a column the first lacks.                               *)

TestRows == 200       \* the rows tests::table allocates
TestCapacity == 256   \* the capacity tests::table expects

\* what has happened to each table: the rows allocated in it, and whether a
\* row has left it
NoTableHistory == [t \in 1 .. 2 |-> [allocated |-> 0, removed |-> FALSE]]

TableAllocated(history, t) ==
    [history EXCEPT ![t + 1].allocated = @ + 1]

TableRemoved(history, t) ==
    [history EXCEPT ![t + 1].removed = TRUE]

\* a table with the one column the test gives it
TestTable(grow_amount) ==
    Table_add_column(Table_with_capacity(0, grow_amount), <<0, None>>)

TableInit ==
    /\ entities = [meta |-> <<>>, pending |-> <<>>]
    /\ archetypes = Archetypes_default
    /\ \E g \in (1 .. MaxGrow) \cup {GrowAmount} :
           storages = [tables |-> [tables |-> <<TestTable(g),
                                                Table_add_column(TestTable(g),
                                                                 <<1, None>>)>>,
                                   table_ids |-> <<>>],
                       sparse_sets |-> <<>>]
    /\ bundles = [bundle_infos |-> <<>>, bundle_ids |-> <<>>,
                  relation_bundle_ids |-> <<>>]
    /\ components = {0, 1}
    /\ removed_components = <<>>
    /\ change_tick = 1
    /\ steps = 0
    /\ last = [NoOp EXCEPT !.pre = NoTableHistory]

\* the run of the test (grow amount 64) allocates TestRows rows in the first
\* table and does nothing else; the other runs take MaxTableOps operations
TableRunning(t) ==
    /\ ~last.panic
    /\ IF At(storages.tables.tables, 0).grow_amount = GrowAmount
       THEN t = 0 /\ steps < TestRows
       ELSE steps < MaxTableOps

\* the tables after a call and the record of the call: the table and row it
\* was given, what it returned, whether it panicked, and the history
TableStep(tables, op, t, row, ret, panic, history) ==
    /\ storages' = [storages EXCEPT !.tables.tables = tables]
    /\ last' = [NoOp EXCEPT !.op = op,
                            !.row = Some([table_id |-> t, table_row |-> row]),
                            !.ret = ret, !.panic = panic,
                            !.pre = history]
    /\ steps' = steps + 1
    /\ UNCHANGED <<entities, archetypes, bundles, components, removed_components,
                   change_tick>>

\* the value a caller writes into the column of a slot in call number v
TableValue(slot, v) == (slot[1] + 1) * 1000 + v

\* Table::allocate of a new entity; the caller then writes every column of
\* the row, with the number of the call as the tick
TableAllocate(t) ==
    /\ TableRunning(t)
    /\ LET alloc == Table_allocate(At(storages.tables.tables, t), <<steps, 0>>)
           written == [alloc.table EXCEPT !.columns =
                          [s \in DOMAIN @ |->
                              Column_write(@[s], alloc.index, "Added",
                                           TableValue(s, steps), steps + 1)]]
       IN TableStep(SetAt(storages.tables.tables, t, written), "allocate", t,
                    alloc.index, Some(alloc.index), FALSE, TableAllocated(last.pre, t))

\* Table::swap_remove_unchecked of a row
TableSwapRemove(t, row) ==
    /\ TableRunning(t)
    /\ At(storages.tables.tables, 0).grow_amount # GrowAmount
    /\ row \in Indices(At(storages.tables.tables, t).entities)
    /\ LET removed == Table_swap_remove_unchecked(At(storages.tables.tables, t), row)
       IN TableStep(SetAt(storages.tables.tables, t, removed.table),
                    "swap_remove", t, row, removed.swapped_entity, FALSE,
                    TableRemoved(last.pre, t))

\* one of the Table::move_to_* functions, from table t to the other table;
\* the unwrap of move_to_superset_unchecked panics when the other table
\* lacks a column
TableMove(move, t, row) ==
    /\ TableRunning(t)
    /\ At(storages.tables.tables, 0).grow_amount # GrowAmount
    /\ row \in Indices(At(storages.tables.tables, t).entities)
    /\ LET moved == Table_move_to(move, At(storages.tables.tables, t), row,
                                  At(storages.tables.tables, 1 - t))
       IN IF move = "superset" /\ ~SupersetHolds(At(storages.tables.tables, t),
                                                 At(storages.tables.tables, 1 - t))
          THEN TableStep(storages.tables.tables, move, t, row, None, TRUE, last.pre)
          ELSE TableStep(SetAt(SetAt(storages.tables.tables, t, moved.table),
                               1 - t, moved.new_table),
                         move, t, row,
                         Some([new_row |-> moved.new_row,
                               swapped_entity |-> moved.swapped_entity,
                               dropped |-> moved.dropped]),
                         FALSE,
                         TableAllocated(TableRemoved(last.pre, t), 1 - t))

TableNext ==
    \/ \E t \in 0 .. 1 : TableAllocate(t)
    \/ \E t \in 0 .. 1, row \in 0 .. MaxTableOps : TableSwapRemove(t, row)
    \/ \E t \in 0 .. 1, row \in 0 .. MaxTableOps :
           TableMove("superset", t, row)
    \/ \E t \in 0 .. 1, row \in 0 .. MaxTableOps :
           TableMove("forget_missing", t, row)
    \/ \E t \in 0 .. 1, row \in 0 .. MaxTableOps :
           TableMove("drop_missing", t, row)

TableSpec == TableInit /\ [][TableNext]_vars

----------------------------------------------------------------------------
(* The bundle registry on its own: typed bundles and relation bundles are   *)
(* registered in a new world in any order.                                  *)

\* the typed bundles a caller can declare: up to two component kinds, the
\* same kind twice included
RegistryTypes ==
    {<<>>} \cup {<<k>> : k \in KindIds \ RelationKinds}
           \cup {<<k, l>> : k, l \in KindIds \ RelationKinds}

\* the entities a relation bundle can name
RegistryTargets == {<<i, g>> : i \in 0 .. (MaxEntities - 1), g \in 0 .. MaxGeneration}

Registering == ~last.panic /\ steps < MaxRegistrations

\* the registry after a registration and the record of the call: the id it
\* returned, or the panic
RegistryStep(bndls, ret, panic, op, slots, kinds) ==
    /\ bundles' = bndls
    /\ components' = components \cup kinds
    /\ last' = [NoOp EXCEPT !.op = op, !.bundle = slots, !.ret = ret,
                            !.panic = panic, !.prev = Prev]
    /\ steps' = steps + 1
    /\ UNCHANGED <<entities, archetypes, storages, removed_components, change_tick>>

\* Bundles::init_info::<T>
InitInfo(T) ==
    /\ Registering
    /\ LET init == Bundles_init_info(bundles, T)
       IN RegistryStep(init.bundles,
                       IF init.panic THEN None ELSE Some(init.info.id), init.panic,
                       "init_info", [i \in DOMAIN T |-> <<T[i], None>>], Range(T))

\* Bundles::init_relation_info
InitRelationInfo(kind, target) ==
    /\ Registering
    /\ LET init == Bundles_init_relation_info(bundles, kind, Some(target))
       IN RegistryStep(init.bundles, Some(init.info.id), FALSE,
                       "init_relation_info", << <<kind, Some(target)>> >>, {kind})

BundleNext ==
    \/ \E T \in RegistryTypes : InitInfo(T)
    \/ \E k \in RelationKinds, t \in RegistryTargets : InitRelationInfo(k, t)

BundleSpec == Init /\ [][BundleNext]_vars

----------------------------------------------------------------------------
(* The registry of kinds and components on its own: kinds, data-kind ids   *)
(* and relationships are registered in a default registry in any order.    *)

\* the type tokens of relationship kinds and of component types
KindTokens == {"HasComponent", "HasResource", "ChildOf"}
TypeTokens == {"X", "Y"}

\* the relationships a caller can name: a kind id and a DummyId or an entity
RegistryRelationships ==
    {[kind |-> k, target |-> t] :
        k \in 0 .. 2, t \in {<<"DummyId", 0>>, <<"DummyId", 1>>, <<"Entity", <<0, 0>>>>}}

ComponentsInit ==
    /\ entities = [meta |-> <<>>, pending |-> <<>>]
    /\ archetypes = Archetypes_default
    /\ storages = [tables |-> Tables_default, sparse_sets |-> <<>>]
    /\ bundles = [bundle_infos |-> <<>>, bundle_ids |-> <<>>,
                  relation_bundle_ids |-> <<>>]
    /\ components = Components_default
    /\ removed_components = <<>>
    /\ change_tick = 1
    /\ steps = 0
    /\ last = NoOp

ComponentsRunning == ~last.panic /\ steps < MaxRegistryOps

\* the registry after a call and the record of the call: its arguments, the
\* registry before it, what it returned and whether it panicked
ComponentsStep(r, op, args, ret) ==
    /\ components' = r.components
    /\ last' = [NoOp EXCEPT !.op = op, !.values = args, !.ret = ret,
                            !.panic = r.panic, !.pre = components]
    /\ steps' = steps + 1
    /\ UNCHANGED <<entities, archetypes, storages, bundles, removed_components,
                   change_tick>>

\* what a call on relationships returns: Ok or the error, the ComponentId,
\* and whether the layout closure ran
InfoResult(r) == [result |-> r.ret, id |-> r.id, invoked |-> r.invoked]

NewRelationshipKind(type_id) ==
    /\ ComponentsRunning
    /\ LET r == Components_new_relationship_kind(components, type_id)
       IN ComponentsStep(r, "new_relationship_kind", <<type_id>>, r.id)

NewComponentId(type_id) ==
    /\ ComponentsRunning
    /\ LET r == Components_new_component_id(components, type_id)
       IN ComponentsStep(r, "new_component_id", <<type_id>>, r.id)

RegisterRelationship(relationship, type_id) ==
    /\ ComponentsRunning
    /\ LET r == Components_register_relationship(components, relationship, type_id)
       IN ComponentsStep(r, "register_relationship", <<relationship, type_id>>,
                         InfoResult(r))

GetRelationshipInfoOrInsertWith(relationship, data_layout) ==
    /\ ComponentsRunning
    /\ LET r == Components_get_relationship_info_or_insert_with(components, relationship,
                                                                data_layout)
       IN ComponentsStep(r, "get_relationship_info_or_insert_with",
                         <<relationship, data_layout>>, InfoResult(r))

GetResourceInfoOrInsert(type_id) ==
    /\ ComponentsRunning
    /\ LET r == Components_get_resource_info_or_insert_with(components, type_id)
       IN ComponentsStep(r, "get_resource_info_or_insert", <<type_id>>, InfoResult(r))

GetComponentInfoOrInsert(type_id) ==
    /\ ComponentsRunning
    /\ LET r == Components_get_component_info_or_insert_with(components, type_id)
       IN ComponentsStep(r, "get_component_info_or_insert", <<type_id>>, InfoResult(r))

ComponentsNext ==
    \/ \E type_id \in {None} \cup {Some(t) : t \in KindTokens} :
           NewRelationshipKind(type_id)
    \/ \E type_id \in {None} \cup {Some(t) : t \in TypeTokens} : NewComponentId(type_id)
    \/ \E relationship \in RegistryRelationships,
          type_id \in {None} \cup {Some(t) : t \in TypeTokens} :
           RegisterRelationship(relationship, type_id)
    \/ \E relationship \in RegistryRelationships, data_layout \in TypeTokens :
           GetRelationshipInfoOrInsertWith(relationship, data_layout)
    \/ \E type_id \in TypeTokens : GetResourceInfoOrInsert(type_id)
    \/ \E type_id \in TypeTokens : GetComponentInfoOrInsert(type_id)

ComponentsSpec == ComponentsInit /\ [][ComponentsNext]_vars

----------------------------------------------------------------------------
(* sorted_remove on its own: it is applied to every pair of strictly        *)
(* increasing slot lists over a small universe.                             *)

\* the slots of the universe in increasing order: kinds 1 .. MaxSortedKind
\* without a target, each of the first two followed by the kind with a target
SortedUniverse ==
    [i \in 1 .. (MaxSortedKind + 2) |->
        IF i = 1 THEN <<1, None>>
        ELSE IF i = 2 THEN <<1, Some(<<0, 0>>)>>
        ELSE IF i = 3 THEN <<2, None>>
        ELSE IF i = 4 THEN <<2, Some(<<0, 0>>)>>
        ELSE <<i - 2, None>>]

\* the strictly increasing list of the slots with the given positions
SortedList(positions) ==
    [j \in 1 .. Cardinality(positions) |->
        SortedUniverse[CHOOSE i \in positions :
                           Cardinality({k \in positions : k < i}) = j - 1]]

SortedRemoveInit ==
    /\ entities = [meta |-> <<>>, pending |-> <<>>]
    /\ archetypes = Archetypes_default
    /\ storages = [tables |-> Tables_default, sparse_sets |-> <<>>]
    /\ bundles = [bundle_infos |-> <<>>, bundle_ids |-> <<>>,
                  relation_bundle_ids |-> <<>>]
    /\ components = {}
    /\ removed_components = <<>>
    /\ change_tick = 1
    /\ steps = 0
    /\ \E source, remove \in SUBSET DOMAIN SortedUniverse :
           last = [NoOp EXCEPT !.bundle = SortedList(source),
                               !.values = SortedList(remove)]

\* sorted_remove(&mut source, &remove): the record keeps both arguments and
\* what source holds afterwards
SortedRemove ==
    /\ last.op = "new"
    /\ last' = [last EXCEPT !.op = "sorted_remove",
                            !.ret = Some(sorted_remove(last.bundle, last.values))]
    /\ steps' = steps + 1
    /\ UNCHANGED <<entities, archetypes, storages, bundles, components,
                   removed_components, change_tick>>

SortedRemoveNext == SortedRemove

SortedRemoveSpec == SortedRemoveInit /\ [][SortedRemoveNext]_vars

----------------------------------------------------------------------------
(* Query filters (With, Without, Added, Changed, Or) over a built world *)

MaxSubFilters == 2    \* sub-filters of one Or
MaxFilterOps == 3     \* calls on one Or filter

\* ComponentTicks::is_added and ComponentTicks::is_changed: the stored tick is
\* newer than the last run, compared by wrapping subtraction read as i32; the
\* ticks of a run stay below MaxTick, where the subtraction never wraps
WrappingNewer(tick, last_change_tick) == tick - last_change_tick > 0

ComponentTicks_is_added(ticks, last_change_tick, this_tick) ==
    WrappingNewer(ticks.added, last_change_tick)

ComponentTicks_is_changed(ticks, last_change_tick, this_tick) ==
    WrappingNewer(ticks.changed, last_change_tick)

\* the $is_detected of impl_tick_filter!
is_detected(filter, ticks, last_change_tick, this_tick) ==
    IF filter = "Added"
    THEN ComponentTicks_is_added(ticks, last_change_tick, this_tick)
    ELSE ComponentTicks_is_changed(ticks, last_change_tick, this_tick)

\* WithState::init, WithoutState::init and the init of a tick filter's state
FilterState_init(filter, kind) ==
    [filter |-> filter, relation_kind_id |-> kind, relation_target |-> None,
     storage_type |-> StorageTypeOf(kind)]

\* FetchState::matches_archetype of With, Without and the tick filters
FilterState_matches_archetype(state, archetype) ==
    IF state.filter = "With"
    THEN Archetype_contains(archetype, state.relation_kind_id, None)
    ELSE IF state.filter = "Without"
    THEN ~Archetype_contains(archetype, state.relation_kind_id, None)
    ELSE Archetype_contains(archetype, state.relation_kind_id, state.relation_target)

\* FetchState::matches_table of With, Without and the tick filters
FilterState_matches_table(state, table) ==
    IF state.filter = "With"
    THEN Table_has_column(table, state.relation_kind_id, None)
    ELSE IF state.filter = "Without"
    THEN ~Table_has_column(table, state.relation_kind_id, None)
    ELSE Table_has_column(table, state.relation_kind_id, state.relation_target)

\* Fetch::init of a sub-filter: WithFetch and WithoutFetch keep the storage
\* type alone; a tick fetch starts with null pointers, and for a sparse-set
\* kind unwraps the sparse set of its slot. A pointer is modelled by what it
\* points at: a column by <<table id, slot>>, the rows and the entities of an
\* archetype by its id, a sparse set by its slot.
Fetch_init(w, state, last_change_tick, this_tick) ==
    LET slot == <<state.relation_kind_id, state.relation_target>>
        tick_filter == state.filter \in {"Added", "Changed"}
        sparse == tick_filter /\ state.storage_type = "SparseSet"
    IN [fetch |-> [storage_type |-> state.storage_type,
                   filter |-> state.filter,
                   table_ticks |-> None,
                   entity_table_rows |-> None,
                   entities |-> None,
                   sparse_set |-> IF sparse /\ slot \in DOMAIN w.storages.sparse_sets
                                  THEN Some(slot) ELSE None,
                   last_change_tick |-> last_change_tick,
                   change_tick |-> this_tick],
        panic |-> sparse /\ slot \notin DOMAIN w.storages.sparse_sets]

\* Fetch::set_table of a sub-filter: nothing for With and Without; a tick
\* fetch unwraps the column of its slot
Fetch_set_table(fetch, state, w, table_id) ==
    LET slot == <<state.relation_kind_id, state.relation_target>>
        table == At(w.storages.tables.tables, table_id)
    IN IF state.filter \in {"With", "Without"}
       THEN [fetch |-> fetch, panic |-> FALSE]
       ELSE IF slot \in DOMAIN table.columns
       THEN [fetch |-> [fetch EXCEPT !.table_ticks = Some(<<table_id, slot>>)],
             panic |-> FALSE]
       ELSE [fetch |-> fetch, panic |-> TRUE]

\* Fetch::set_archetype of a sub-filter
Fetch_set_archetype(fetch, state, w, archetype_id) ==
    LET slot == <<state.relation_kind_id, state.relation_target>>
        archetype == At(w.archetypes.archetypes, archetype_id)
        table_id == archetype.table_info.id
        table == At(w.storages.tables.tables, table_id)
    IN IF state.filter \in {"With", "Without"}
       THEN [fetch |-> fetch, panic |-> FALSE]
       ELSE IF state.storage_type = "SparseSet"
       THEN [fetch |-> [fetch EXCEPT !.entities = Some(archetype_id)],
             panic |-> FALSE]
       ELSE IF slot \in DOMAIN table.columns
       THEN [fetch |-> [fetch EXCEPT !.entity_table_rows = Some(archetype_id),
                                     !.table_ticks = Some(<<table_id, slot>>)],
             panic |-> FALSE]
       ELSE [fetch |-> [fetch EXCEPT !.entity_table_rows = Some(archetype_id)],
             panic |-> TRUE]

\* the read of *table_ticks.add(table_row): the outcomes of the detection; a
\* null pointer and a row past the end of the column leave every outcome open
TicksAt(fetch, w, table_row) ==
    IF fetch.table_ticks = None THEN BOOLEAN
    ELSE LET column == At(w.storages.tables.tables, fetch.table_ticks[1][1])
                           .columns[fetch.table_ticks[1][2]]
         IN IF table_row \in Indices(column.ticks)
            THEN {is_detected(fetch.filter, At(column.ticks, table_row),
                              fetch.last_change_tick, fetch.change_tick)}
            ELSE BOOLEAN

\* Fetch::table_fetch of a sub-filter, as the set of its outcomes
Fetch_table_fetch(fetch, w, table_row) ==
    IF fetch.filter \in {"With", "Without"} THEN {TRUE}
    ELSE TicksAt(fetch, w, table_row)

\* Fetch::archetype_fetch of a sub-filter, as the set of its outcomes; the
\* unwrap of a missing sparse-set entry panics
Fetch_archetype_fetch(fetch, w, archetype_index) ==
    IF fetch.filter \in {"With", "Without"} THEN {[ret |-> TRUE, panic |-> FALSE]}
    ELSE IF fetch.storage_type = "Table"
    THEN IF fetch.entity_table_rows = None
         THEN {[ret |-> b, panic |-> FALSE] : b \in BOOLEAN}
         ELSE LET rows == At(w.archetypes.archetypes, fetch.entity_table_rows[1])
                              .table_info.entity_rows
              IN IF archetype_index \in Indices(rows)
                 THEN {[ret |-> b, panic |-> FALSE] :
                          b \in TicksAt(fetch, w, At(rows, archetype_index))}
                 ELSE {[ret |-> b, panic |-> FALSE] : b \in BOOLEAN}
    ELSE IF fetch.entities = None \/ fetch.sparse_set = None
    THEN {[ret |-> b, panic |-> FALSE] : b \in BOOLEAN}
    ELSE LET ents == At(w.archetypes.archetypes, fetch.entities[1]).entities
         IN IF archetype_index \notin Indices(ents)
            THEN {[ret |-> b, panic |-> FALSE] : b \in BOOLEAN}
            ELSE LET entry == ComponentSparseSet_get(
                                  w.storages.sparse_sets[fetch.sparse_set[1]],
                                  At(ents, archetype_index))
                 IN IF entry = None THEN {[ret |-> FALSE, panic |-> TRUE]}
                    ELSE {[ret |-> is_detected(fetch.filter, entry[1].ticks,
                                               fetch.last_change_tick,
                                               fetch.change_tick),
                           panic |-> FALSE]}

\* FetchState::init of Or<(F1, .., Fn)>: the states of its sub-filters
Or_state_init(filters) ==
    [i \in DOMAIN filters |-> FilterState_init(filters[i][1], filters[i][2])]

\* Fetch::init of Or: every sub-fetch is initialised, no sub-filter matches yet
Or_init(w, state, last_change_tick, this_tick) ==
    LET inits == [i \in DOMAIN state |->
                     Fetch_init(w, state[i], last_change_tick, this_tick)]
    IN [fetch |-> [i \in DOMAIN state |->
                      [fetch |-> inits[i].fetch, matches |-> FALSE]],
        panic |-> \E i \in DOMAIN state : inits[i].panic]

\* FetchState::matches_archetype of Or
Or_matches_archetype(state, archetype) ==
    \E i \in DOMAIN state : FilterState_matches_archetype(state[i], archetype)

\* FetchState::matches_table of Or
Or_matches_table(state, table) ==
    \E i \in DOMAIN state : FilterState_matches_table(state[i], table)

\* Fetch::set_table and Fetch::set_archetype of Or: each sub-filter's matches
\* flag is recomputed, and its fetch is set only when it matches; set_up
\* lists the sub-filters whose fetch was set
Or_set(fetch, state, w, mode, id) ==
    LET matched(i) ==
            IF mode = "table"
            THEN FilterState_matches_table(state[i], At(w.storages.tables.tables, id))
            ELSE FilterState_matches_archetype(state[i],
                                               At(w.archetypes.archetypes, id))
        set(i) == IF mode = "table"
                  THEN Fetch_set_table(fetch[i].fetch, state[i], w, id)
                  ELSE Fetch_set_archetype(fetch[i].fetch, state[i], w, id)
    IN [fetch |-> [i \in DOMAIN fetch |->
                      [fetch |-> IF matched(i) THEN set(i).fetch ELSE fetch[i].fetch,
                       matches |-> matched(i)]],
        set_up |-> {i \in DOMAIN fetch : matched(i)},
        panic |-> \E i \in DOMAIN fetch : matched(i) /\ set(i).panic]

\* the outcomes of one sub-fetch in either mode
SubFetch(fetch, w, mode, index) ==
    IF mode = "table"
    THEN {[ret |-> b, panic |-> FALSE] : b \in Fetch_table_fetch(fetch, w, index)}
    ELSE Fetch_archetype_fetch(fetch, w, index)

\* an Or whose fetch asks every sub-filter, whether it matched or not
Or_fetch_every_filter(fetch, w, mode, index) ==
    LET n == Len(fetch)
        go[i \in 1 .. (n + 1)] ==
            IF i > n THEN {[ret |-> FALSE, consulted |-> <<>>, panic |-> FALSE]}
            ELSE UNION {
                     IF o.panic \/ o.ret
                     THEN {[ret |-> o.ret, consulted |-> <<i>>, panic |-> o.panic]}
                     ELSE {[ret |-> rest.ret, consulted |-> <<i>> \o rest.consulted,
                            panic |-> rest.panic] : rest \in go[i + 1]}
                     : o \in SubFetch(fetch[i].fetch, w, mode, index)}
    IN go[1]

\* Fetch::table_fetch and Fetch::archetype_fetch of Or:
\* false || (F1.matches && F1.fetch(..)) || .. evaluated left to right, as
\* the set of its outcomes; consulted lists the sub-filters whose fetch ran
Or_fetch(fetch, w, mode, index) ==
    LET n == Len(fetch)
        go[i \in 1 .. (n + 1)] ==
            IF i > n THEN {[ret |-> FALSE, consulted |-> <<>>, panic |-> FALSE]}
            ELSE IF ~fetch[i].matches THEN go[i + 1]
            ELSE UNION {
                     IF o.panic \/ o.ret
                     THEN {[ret |-> o.ret, consulted |-> <<i>>, panic |-> o.panic]}
                     ELSE {[ret |-> rest.ret, consulted |-> <<i>> \o rest.consulted,
                            panic |-> rest.panic] : rest \in go[i + 1]}
                     : o \in SubFetch(fetch[i].fetch, w, mode, index)}
    IN go[1]

\* the sub-filters an Or is built from: a filter and the kind it names
SubFilters == {"With", "Without", "Added", "Changed"} \X {0, 2}

FilterTuples ==
    UNION {[1 .. n -> SubFilters] : n \in 0 .. MaxSubFilters}

\* the record of a call on the Or filter: the states and the fetch of the
\* filter, the archetype or table it is set to, the row asked for, what the
\* call returned, the sub-filters whose fetch the call set up and consulted
NoFilterOp ==
    [op |-> "new", panic |-> FALSE, state |-> <<>>, fetch |-> <<>>,
     current |-> None, index |-> None, ret |-> None, set_up |-> {},
     consulted |-> <<>>]

\* the world the filters run over: two entities, the first given one bundle
\* at tick 1 and another at tick 2, the second given the first bundle at tick 1
FilterWorld(T1, T2) ==
    LET World0 == [entities |-> [meta |-> <<>>, pending |-> <<>>],
                   archetypes |-> Archetypes_default,
                   storages |-> [tables |-> Tables_default, sparse_sets |-> <<>>],
                   bundles |-> [bundle_infos |-> <<>>, bundle_ids |-> <<>>,
                                relation_bundle_ids |-> <<>>],
                   components |-> {k \in KindIds : StorageTypeOf(k) = "SparseSet"},
                   removed_components |-> <<>>]
        Insert(w, e, T, tick) ==
            insert_bundle(w, e, LocationIn(w, e)[1], T, BundleValues(T, tick), tick).world
        Second(w) == Insert(spawn(w).world, <<1, 0>>, T1, 1)
    IN Second(Insert(Insert(spawn(World0).world, <<0, 0>>, T1, 1), <<0, 0>>, T2, 2))

\* the bundles the entities of the world are given
FilterBundles == {T \in BundleTypes : Range(T) \subseteq {0, 2}}

FilterInit ==
    \E T1, T2 \in FilterBundles :
        LET w == FilterWorld(T1, T2) IN
        /\ entities = w.entities
        /\ archetypes = w.archetypes
        /\ storages = w.storages
        /\ bundles = w.bundles
        /\ components = w.components
        /\ removed_components = w.removed_components
        /\ change_tick = 2
        /\ steps = 0
        /\ \E filters \in FilterTuples :
               LET state == Or_state_init(filters)
                   init == Or_init(w, state, change_tick - 1, change_tick)
               IN /\ ~init.panic
                  /\ last = [NoFilterOp EXCEPT !.state = state, !.fetch = init.fetch]

FilterRunning == ~last.panic /\ steps < MaxFilterOps

FilterStep(record) ==
    /\ last' = record
    /\ steps' = steps + 1
    /\ UNCHANGED <<entities, archetypes, storages, bundles, components,
                   removed_components, change_tick>>

\* state.matches_archetype(archetype)
MatchesArchetype(archetype_id) ==
    /\ FilterRunning
    /\ FilterStep([last EXCEPT
           !.op = "matches_archetype", !.index = Some(archetype_id),
           !.ret = Some(Or_matches_archetype(
                            last.state, At(archetypes.archetypes, archetype_id))),
           !.set_up = {}, !.consulted = <<>>])

\* state.matches_table(table)
MatchesTable(table_id) ==
    /\ FilterRunning
    /\ FilterStep([last EXCEPT
           !.op = "matches_table", !.index = Some(table_id),
           !.ret = Some(Or_matches_table(
                            last.state, At(storages.tables.tables, table_id))),
           !.set_up = {}, !.consulted = <<>>])

\* fetch.set_archetype(state, archetype, tables) and fetch.set_table(state, table)
SetFilter(mode, id) ==
    /\ FilterRunning
    /\ LET r == Or_set(last.fetch, last.state, World, mode, id) IN
       FilterStep([last EXCEPT
           !.op = IF mode = "table" THEN "set_table" ELSE "set_archetype",
           !.fetch = r.fetch, !.current = Some(<<mode, id>>), !.index = None,
           !.ret = None, !.set_up = r.set_up, !.consulted = <<>>,
           !.panic = r.panic])

SetArchetypeFilter(archetype_id) == SetFilter("archetype", archetype_id)

SetTableFilter(table_id) == SetFilter("table", table_id)

\* fetch.archetype_fetch(archetype_index) and fetch.table_fetch(table_row),
\* for a row of the archetype or table the fetch was last set to
FetchFilter(mode, index) ==
    /\ FilterRunning
    /\ last.current # None
    /\ last.current[1][1] = mode
    /\ index \in Indices(IF mode = "table"
                         THEN At(storages.tables.tables, last.current[1][2]).entities
                         ELSE At(archetypes.archetypes, last.current[1][2]).entities)
    /\ \E o \in Or_fetch(last.fetch, World, mode, index) :
           FilterStep([last EXCEPT
               !.op = IF mode = "table" THEN "table_fetch" ELSE "archetype_fetch",
               !.index = Some(index), !.ret = Some(o.ret), !.set_up = {},
               !.consulted = o.consulted, !.panic = o.panic])

ArchetypeFetch(archetype_index) == FetchFilter("archetype", archetype_index)

TableFetch(table_row) == FetchFilter("table", table_row)

FilterNext ==
    \/ \E a \in Indices(archetypes.archetypes) : MatchesArchetype(a)
    \/ \E t \in Indices(storages.tables.tables) : MatchesTable(t)
    \/ \E a \in Indices(archetypes.archetypes) : SetArchetypeFilter(a)
    \/ \E t \in Indices(storages.tables.tables) : SetTableFilter(t)
    \/ \E i \in 0 .. (MaxEntities - 1) : ArchetypeFetch(i)
    \/ \E i \in 0 .. (MaxEntities - 1) : TableFetch(i)

FilterSpec == FilterInit /\ [][FilterNext]_vars

----------------------------------------------------------------------------
(* Properties *)

\* the operations that change the structure of the world
Mutations ==
    {"insert_bundle", "insert_relation", "remove_bundle", "remove_relation",
     "remove_bundle_intersection", "despawn"}

\* every slot a lookup can name: a kind with no target or with any handle
AllSlots ==
    {<<k, None>> : k \in KindIds}
        \cup {<<k, Some(t)>> : k \in KindIds, t \in AllHandles}

\* the component types of the bundle of the last call
TypesOf(bundle) == [i \in DOMAIN bundle |-> bundle[i][1]]

\* C1: after insert_bundle(e, b) on a live entity with slot set S, the slot
\* set of e is exactly S \cup slots(b), every slot of b holds the value the
\* bundle supplied, and every slot of S \ slots(b) holds the value it held
\* before the call.
C1_InsertBundleSetsSlotsAndValues ==
    [][last'.op = "insert_bundle" =>
        LET e == last'.entity[1]
            b == last'.bundle
            S == SlotSetIn(World, e)
        IN /\ ~last'.panic
           /\ SlotSetIn(World', e) = S \cup Range(b)
           /\ \A i \in DOMAIN b : GetIn(World', e, b[i]) = Some(last'.values[i])
           /\ \A s \in S \ Range(b) : GetIn(World', e, s) = GetIn(World, e, s)]_vars

\* an insert_bundle that kept one slot, overwrote one and added one
C1_Witness ==
    /\ last.op = "insert_bundle" /\ ~last.panic
    /\ DOMAIN last.pre \ Range(last.bundle) # {}
    /\ Range(last.bundle) \cap DOMAIN last.pre # {}
    /\ Range(last.bundle) \ DOMAIN last.pre # {}

\* C2: for every archetype A and every index i < A.entities.len(), the
\* location recorded for entity A.entities[i] is exactly (A.id, i), in every
\* state a completed mutation leaves, the entity a swap-remove moved into
\* the vacated index included.
C2_LocationsMatchArchetypes ==
    \A a \in Indices(archetypes.archetypes) :
        LET archetype == At(archetypes.archetypes, a) IN
        \A i \in Indices(archetype.entities) :
            Entities_get(entities, At(archetype.entities, i))
                = Some([archetype_id |-> archetype.id, index |-> i])

\* a mutation after which another entity sits at the index the entity left
C2_Witness ==
    /\ last.op \in Mutations /\ ~last.panic /\ IsSome(last.loc)
    /\ \E e2 \in LiveEntities \ {last.entity[1]} : LocationIn(World, e2) = last.loc

\* C3: for every archetype A and index i, the table of A holds A.entities[i]
\* at row A.entity_table_rows[i], in every state a completed mutation
\* leaves; the entity a table swap-remove moved into the vacated row has its
\* entity_table_rows entry set to that row, also when it lives in another
\* archetype that shares the table.
C3_TableRowsMatchArchetypes ==
    \A a \in Indices(archetypes.archetypes) :
        LET archetype == At(archetypes.archetypes, a)
            table == At(storages.tables.tables, archetype.table_info.id)
        IN /\ Len(archetype.table_info.entity_rows) = Len(archetype.entities)
           /\ \A i \in Indices(archetype.entities) :
                  LET row == At(archetype.table_info.entity_rows, i) IN
                  /\ row \in Indices(table.entities)
                  /\ At(table.entities, row) = At(archetype.entities, i)

\* a mutation after which an entity of another archetype sits in the table
\* row the entity left
C3_Witness ==
    /\ last.op \in Mutations /\ ~last.panic /\ IsSome(last.row)
    /\ \E e2 \in LiveEntities \ {last.entity[1]} :
           /\ TableRowIn(World, e2) = last.row
           /\ LocationIn(World, e2)[1].archetype_id # last.loc[1].archetype_id

\* C4: in every reachable state every column of every table has as many
\* values and as many ticks as the table has entities, for the source and
\* the destination table of a move alike.
C4_ColumnsAsLongAsTable ==
    \A t \in Indices(storages.tables.tables) :
        LET table == At(storages.tables.tables, t) IN
        \A s \in DOMAIN table.columns :
            /\ Len(table.columns[s].data) = Len(table.entities)
            /\ Len(table.columns[s].ticks) = Len(table.entities)

\* a mutation that moved a row between two tables that both have columns
C4_Witness ==
    /\ last.op \in Mutations /\ ~last.panic /\ IsSome(last.row)
    /\ IsSome(TableRowIn(World, last.entity[1]))
    /\ LET from == last.row[1].table_id
           to == TableRowIn(World, last.entity[1])[1].table_id
       IN /\ from # to
          /\ DOMAIN At(storages.tables.tables, from).columns # {}
          /\ DOMAIN At(storages.tables.tables, to).columns # {}

\* C5: for every live entity e and every slot, the lookup get / get_relation
\* of the slot on e returns a value if and only if the slot is in the slot
\* set of the archetype of e, for table and for sparse-set kinds alike.
C5_LookupIffSlotInArchetype ==
    \A e \in LiveEntities : \A slot \in AllSlots :
        IsSome(GetIn(World, e, slot)) <=> slot \in SlotSetIn(World, e)

\* a removal that took a sparse-set slot from an entity that keeps a table
\* slot
C5_Witness ==
    /\ last.op \in {"remove_bundle", "remove_bundle_intersection"} /\ ~last.panic
    /\ LET e == last.entity[1] IN
       /\ \E s \in DOMAIN last.pre \ SlotSetIn(World, e) :
              StorageTypeOf(s[1]) = "SparseSet" /\ GetIn(World, e, s) = None
       /\ \E s \in SlotSetIn(World, e) :
              StorageTypeOf(s[1]) = "Table" /\ IsSome(GetIn(World, e, s))

\* what strict remove_bundle::<B>(e) does, as the step from World to World'
StrictRemoveContract ==
    LET e == last'.entity[1]
        b == last'.bundle
        S == SlotSetIn(World, e)
    IN /\ ~last'.panic
       /\ IsSome(last'.ret) <=> Range(b) \subseteq S
       /\ IsSome(last'.ret) =>
              /\ last'.ret[1] = [i \in DOMAIN b |-> GetIn(World, e, b[i])[1]]
              /\ SlotSetIn(World', e) = S \ Range(b)
              /\ \A i \in DOMAIN b : GetIn(World', e, b[i]) = None

\* C6 (as stated): strict remove_bundle::<B>(e) returns Some(values) if and
\* only if every slot of B is present on e; the values are those stored on e
\* for the slots of B in bundle order, the slot set of e afterwards is the
\* previous one minus slots(B), and every lookup of a removed slot is None.
C6_StrictRemove_AsStated ==
    [][last'.op = "remove_bundle" => StrictRemoveContract]_vars

\* C6 (amended): for a bundle B with at least one slot, strict
\* remove_bundle::<B>(e) returns Some(values) if and only if every slot of B
\* is present on e; the values are those stored on e for the slots of B in
\* bundle order, the slot set of e afterwards is the previous one minus
\* slots(B), and every lookup of a removed slot is None.
C6_StrictRemove ==
    [][last'.op = "remove_bundle" /\ last'.bundle # <<>> => StrictRemoveContract]_vars

\* a strict removal of a bundle of two slots that returned their values
C6_Witness ==
    /\ last.op = "remove_bundle" /\ ~last.panic
    /\ IsSome(last.ret)
    /\ Len(last.bundle) = 2
    /\ DOMAIN last.pre = Range(last.bundle)

\* C7: strict remove_bundle or remove_relation on an entity that lacks one
\* of the requested slots returns None and leaves the location of the
\* entity, the entity list and entity_table_rows of every archetype, every
\* table and sparse set, the removed-components log and the sets of
\* archetypes and tables unchanged.
C7_FailedStrictRemoveChangesNothing ==
    [][(/\ last'.op \in {"remove_bundle", "remove_relation"}
        /\ Range(last'.bundle) \ SlotSetIn(World, last'.entity[1]) # {})
       =>
       LET e == last'.entity[1] IN
       /\ ~last'.panic
       /\ last'.ret = None
       /\ LocationIn(World', e) = LocationIn(World, e)
       /\ Len(archetypes'.archetypes) = Len(archetypes.archetypes)
       /\ archetypes'.archetype_ids = archetypes.archetype_ids
       /\ \A a \in Indices(archetypes.archetypes) :
              /\ At(archetypes'.archetypes, a).entities
                     = At(archetypes.archetypes, a).entities
              /\ At(archetypes'.archetypes, a).table_info
                     = At(archetypes.archetypes, a).table_info
       /\ storages' = storages
       /\ removed_components' = removed_components]_vars

\* a strict removal of a bundle the entity holds one slot of and lacks
\* another
C7_Witness ==
    /\ last.op = "remove_bundle" /\ ~last.panic
    /\ last.ret = None
    /\ Range(last.bundle) \cap DOMAIN last.pre # {}
    /\ Range(last.bundle) \ DOMAIN last.pre # {}

\* C8: remove_bundle_intersection::<B>(e) never fails
\* (remove_bundle_from_archetype with intersection = true never returns
\* None) and leaves an entity with slot set S with exactly S \ slots(B); the
\* removed-components log gains exactly one entry of e for each slot of
\* S \cap slots(B) and none for any other slot.
C8_IntersectionRemove ==
    [][last'.op = "remove_bundle_intersection" =>
        LET e == last'.entity[1]
            B == Range(last'.bundle)
            S == SlotSetIn(World, e)
            info == Bundles_init_info(bundles, TypesOf(last'.bundle)).info
        IN /\ ~last'.panic
           /\ remove_bundle_from_archetype(archetypes, storages,
                  LocationIn(World, e)[1].archetype_id, info, TRUE).result # None
           /\ SlotSetIn(World', e) = S \ B
           /\ \A s \in DOMAIN removed_components' \cup DOMAIN removed_components \cup B :
                  RemovedIn(World', s) =
                      IF s \in S \cap B THEN Append(RemovedIn(World, s), e)
                      ELSE RemovedIn(World, s)]_vars

\* an intersection removal of a bundle the entity holds one slot of and
\* lacks another, from an entity that keeps a third slot
C8_Witness ==
    /\ last.op = "remove_bundle_intersection" /\ ~last.panic
    /\ Range(last.bundle) \cap DOMAIN last.pre # {}
    /\ Range(last.bundle) \ DOMAIN last.pre # {}
    /\ DOMAIN last.pre \ Range(last.bundle) # {}

\* C9: remove_bundle_intersection::<B>(e) on an entity with none of the
\* slots of B returns normally, changes neither the location of the entity
\* nor any archetype entity list, table or sparse set nor the
\* removed-components log, and creates no archetype and no table.
C9_IntersectionRemoveWithoutOverlap ==
    [][(/\ last'.op = "remove_bundle_intersection"
        /\ Range(last'.bundle) \cap SlotSetIn(World, last'.entity[1]) = {})
       =>
       LET e == last'.entity[1] IN
       /\ ~last'.panic
       /\ LocationIn(World', e) = LocationIn(World, e)
       /\ Len(archetypes'.archetypes) = Len(archetypes.archetypes)
       /\ \A a \in Indices(archetypes.archetypes) :
              At(archetypes'.archetypes, a).entities
                  = At(archetypes.archetypes, a).entities
       /\ Len(storages'.tables.tables) = Len(storages.tables.tables)
       /\ storages'.tables.tables = storages.tables.tables
       /\ storages'.sparse_sets = storages.sparse_sets
       /\ removed_components' = removed_components]_vars

\* an intersection removal of a bundle with slots from an entity that holds
\* other slots only
C9_Witness ==
    /\ last.op = "remove_bundle_intersection" /\ ~last.panic
    /\ last.bundle # <<>>
    /\ DOMAIN last.pre # {}
    /\ Range(last.bundle) \cap DOMAIN last.pre = {}

\* insert_bundle(e, b) was followed at once by remove_bundle::<b>(e)
InsertThenRemove ==
    /\ last.op = "remove_bundle"
    /\ last.prev.op = "insert_bundle"
    /\ last.prev.entity = last.entity
    /\ last.prev.bundle = last.bundle

\* C10 (as stated): insert_bundle(e, b) followed by remove_bundle::<b>(e)
\* leaves e with the slot set it had before the insert, and every slot not
\* in b keeps its value and its added and changed ticks.
C10_InsertThenRemove_AsStated ==
    InsertThenRemove =>
        LET e == last.entity[1]
            before == last.prev.pre
        IN /\ ~last.panic
           /\ SlotSetIn(World, e) = DOMAIN before
           /\ \A s \in DOMAIN before \ Range(last.bundle) :
                  GetWithTicksIn(World, e, s) = before[s]

\* C10 (amended): insert_bundle(e, b) followed by remove_bundle::<b>(e)
\* leaves e with the slot set it had before the insert minus slots(b), and
\* every slot not in b keeps its value and its added and changed ticks.
C10_InsertThenRemove ==
    InsertThenRemove =>
        LET e == last.entity[1]
            before == last.prev.pre
        IN /\ ~last.panic
           /\ SlotSetIn(World, e) = DOMAIN before \ Range(last.bundle)
           /\ \A s \in DOMAIN before \ Range(last.bundle) :
                  GetWithTicksIn(World, e, s) = before[s]

\* an insert of a table bundle and its removal on an entity that holds a
\* table slot outside the bundle
C10_Witness ==
    /\ InsertThenRemove /\ ~last.panic
    /\ IsSome(last.ret)
    /\ \E s \in Range(last.bundle) : StorageTypeOf(s[1]) = "Table"
    /\ \E s \in DOMAIN last.prev.pre \ Range(last.bundle) :
           StorageTypeOf(s[1]) = "Table"

\* C11: despawn(e) of an entity whose archetype has slot set S appends e
\* exactly once to the removed-components list of each slot of S and nothing
\* to the list of any other slot, removes e from every sparse set of S,
\* removes the row of e from its table and removes e from the entity list of
\* its archetype.
C11_DespawnLogsAndRemoves ==
    [][last'.op = "despawn" =>
        LET e == last'.entity[1]
            S == SlotSetIn(World, e)
            a == LocationIn(World, e)[1].archetype_id
            t == TableRowIn(World, e)[1].table_id
        IN /\ ~last'.panic
           /\ \A s \in AllSlots \cup DOMAIN removed_components' :
                  RemovedIn(World', s) =
                      IF s \in S THEN Append(RemovedIn(World, s), e)
                      ELSE RemovedIn(World, s)
           /\ \A s \in S :
                  StorageTypeOf(s[1]) = "SparseSet" =>
                      ComponentSparseSet_get(storages'.sparse_sets[s], e) = None
           /\ e \notin Range(At(storages'.tables.tables, t).entities)
           /\ Len(At(storages'.tables.tables, t).entities)
                  = Len(At(storages.tables.tables, t).entities) - 1
           /\ e \notin Range(At(archetypes'.archetypes, a).entities)
           /\ Len(At(archetypes'.archetypes, a).entities)
                  = Len(At(archetypes.archetypes, a).entities) - 1]_vars

\* a despawn of an entity that held a sparse-set slot and a relation slot
C11_Witness ==
    /\ last.op = "despawn" /\ ~last.panic
    /\ \E s \in DOMAIN last.pre : StorageTypeOf(s[1]) = "SparseSet"
    /\ \E s \in DOMAIN last.pre : s[2] # None
    /\ \A s \in DOMAIN last.pre : last.entity[1] \in Range(RemovedIn(World, s))

\* C12: once despawn(e) has run, the handle e has no location and every
\* lookup with it yields None in every later state, also after the id of e
\* was handed out again with the next generation and the new entity was
\* given components.
C12_StaleHandleYieldsNone ==
    [][\A h \in AllHandles' :
           (\/ (last'.op = "despawn" /\ ~last'.panic /\ last'.entity = Some(h))
            \/ (h \in AllHandles /\ h[2] < At(entities.meta, h[1]).generation))
           => /\ LocationIn(World', h) = None
              /\ \A s \in AllSlots' : GetIn(World', h, s) = None]_vars

\* the id of a despawned entity is live again with the next generation and
\* the new entity holds a sparse-set slot, which a lookup with the new
\* handle finds
C12_Witness ==
    \E h \in AllHandles :
        /\ h[2] < At(entities.meta, h[1]).generation
        /\ LET n == <<h[1], h[2] + 1>> IN
           /\ n \in LiveEntities
           /\ \E s \in SlotSetIn(World, n) :
                  StorageTypeOf(s[1]) = "SparseSet" /\ IsSome(GetIn(World, n, s))

\* C13: despawn(p) of an entity p that is the target of a relation slot
\* (K, Some(p)) of another entity c does not cascade: c stays live, the
\* archetype of c keeps the slot, and get_relation::<K>(c, p) returns the
\* value it returned before.
C13_DespawnOfTargetDoesNotCascade ==
    [][last'.op = "despawn" =>
        LET p == last'.entity[1] IN
        \A c \in LiveEntities \ {p} :
            \A s \in SlotSetIn(World, c) :
                s[2] = Some(p) =>
                    /\ ~last'.panic
                    /\ c \in LiveEntities'
                    /\ s \in SlotSetIn(World', c)
                    /\ IsSome(GetIn(World, c, s))
                    /\ GetIn(World', c, s) = GetIn(World, c, s)]_vars

\* the target of a relation of a live entity was despawned
C13_Witness ==
    /\ last.op = "despawn" /\ ~last.panic
    /\ \E c \in LiveEntities :
           /\ <<3, last.entity>> \in SlotSetIn(World, c)
           /\ IsSome(GetIn(World, c, <<3, last.entity>>))

\* C14: a mutation of entity e leaves the slot set, the values and the
\* ticks of every other live entity unchanged; another entity stays in its
\* archetype and its table, its archetype index changes only to the index e
\* left in that archetype, and its table row only to the row e left in that
\* table.
C14_OtherEntitiesUntouched ==
    [][last'.op \in Mutations =>
        LET e == last'.entity[1] IN
        \A o \in LiveEntities \ {e} :
            /\ ~last'.panic
            /\ o \in LiveEntities'
            /\ CellsIn(World', o) = CellsIn(World, o)
            /\ LocationIn(World', o)[1].archetype_id
                   = LocationIn(World, o)[1].archetype_id
            /\ \/ LocationIn(World', o) = LocationIn(World, o)
               \/ LocationIn(World', o) = LocationIn(World, e)
            /\ TableRowIn(World', o)[1].table_id = TableRowIn(World, o)[1].table_id
            /\ \/ TableRowIn(World', o) = TableRowIn(World, o)
               \/ TableRowIn(World', o) = TableRowIn(World, e)]_vars

\* a mutation moved another entity, one that holds a slot, into the table
\* row the mutated entity left
C14_Witness ==
    /\ last.op \in Mutations /\ ~last.panic /\ IsSome(last.row)
    /\ TableRowIn(World, last.entity[1]) # last.row
    /\ \E o \in LiveEntities \ {last.entity[1]} :
           /\ TableRowIn(World, o) = last.row
           /\ \E s \in SlotSetIn(World, o) : IsSome(GetIn(World, o, s))

\* every component value the tables and the sparse sets hold
StoredValues(w) ==
    UNION {UNION {Range(table.columns[s].data) : s \in DOMAIN table.columns} :
              table \in Range(w.storages.tables.tables)}
        \cup UNION {{set[i].value : i \in DOMAIN set} :
                       set \in Range(w.storages.sparse_sets)}

TableSlots ==
    {<<k, None>> : k \in {j \in KindIds \ RelationKinds : StorageTypeOf(j) = "Table"}}
        \cup {<<k, Some(e)>> : k \in RelationKinds, e \in LiveEntities}

SparseLists ==
    {<<>>} \cup {<< <<k, None>> >> : k \in {j \in KindIds : StorageTypeOf(j) = "SparseSet"}}

Identities ==
    {<<SlotSeq(T), sc>> : T \in {U \in SUBSET TableSlots : Cardinality(U) <= 2},
                          sc \in SparseLists}

\* a call of get_id_or_insert after the call that gave first, with the same
\* slot lists and table id t: the same id, and nothing created
SecondCallFinds(first, t, k) ==
    Archetypes_get_id_or_insert(first.archetypes, t, k[1], k[2])
        = [archetypes |-> first.archetypes, id |-> first.id]

\* C16: two calls of Archetypes::get_id_or_insert with equal sorted slot
\* lists return the same ArchetypeId, whether the second follows the first
\* at once or after any step of the run, and the second creates no archetype
\* and consumes no ArchetypeComponentId, whatever table id either passes.
C16_GetIdOrInsertIdempotent ==
    [][/\ \A k \in Identities : \A t1, t2 \in Indices(storages.tables.tables) :
              SecondCallFinds(
                  Archetypes_get_id_or_insert(archetypes, t1, k[1], k[2]), t2, k)
       /\ \A k \in DOMAIN archetypes.archetype_ids :
              \A t \in Indices(storages'.tables.tables) :
                  SecondCallFinds([archetypes |-> archetypes',
                                   id |-> archetypes.archetype_ids[k]], t, k)]_vars

\* a removal asked get_id_or_insert for the slot lists of an archetype an
\* insert had created before: the archetype the entity left is the newest,
\* and the edge the removal cached is its only edge
C16_Witness ==
    /\ last.op \in {"remove_bundle", "remove_bundle_intersection"} /\ ~last.panic
    /\ last.loc[1].archetype_id = Len(archetypes.archetypes) - 1
    /\ LET old == At(archetypes.archetypes, last.loc[1].archetype_id)
           new == LocationIn(World, last.entity[1])[1].archetype_id
       IN /\ new \notin {0, old.id}
          /\ DOMAIN old.edges.add_bundle = {}
          /\ Cardinality(DOMAIN old.edges.remove_bundle)
                 + Cardinality(DOMAIN old.edges.remove_bundle_intersection) = 1

\* two archetypes have the same identity
SameIdentity(a, b) ==
    /\ At(archetypes.archetypes, a).table_components
           = At(archetypes.archetypes, b).table_components
    /\ At(archetypes.archetypes, a).sparse_set_components
           = At(archetypes.archetypes, b).sparse_set_components

\* C17 (as stated): no two distinct archetypes held by Archetypes have equal
\* table_slots and equal sparse_set_slots.
C17_IdentityDeterminesId_AsStated ==
    \A a, b \in Indices(archetypes.archetypes) : SameIdentity(a, b) => a = b

\* C17 (amended): no two distinct archetypes other than the resource
\* archetype (id 1) have equal table_slots and equal sparse_set_slots, and
\* each of them is the entry of its slot lists in the identity map.
C17_IdentityDeterminesId ==
    /\ \A a, b \in Indices(archetypes.archetypes) \ {1} : SameIdentity(a, b) => a = b
    /\ \A a \in Indices(archetypes.archetypes) \ {1} :
           LET archetype == At(archetypes.archetypes, a)
               k == <<archetype.table_components, archetype.sparse_set_components>>
           IN /\ archetype.id = a
              /\ k \in DOMAIN archetypes.archetype_ids
              /\ archetypes.archetype_ids[k] = a

\* two archetypes share their table slots and differ in their sparse-set
\* slots, and an entity came back to an archetype made before
C17_Witness ==
    /\ \E a, b \in Indices(archetypes.archetypes) \ {0, 1} :
           /\ a # b
           /\ At(archetypes.archetypes, a).table_components
                  = At(archetypes.archetypes, b).table_components
           /\ At(archetypes.archetypes, a).table_components # <<>>
    /\ last.op \in {"remove_bundle", "remove_bundle_intersection"} /\ ~last.panic
    /\ LocationIn(World, last.entity[1])[1].archetype_id < last.loc[1].archetype_id

\* the reserved archetypes exist: empty at id 0, resource at id 1, both
\* without slots
ReservedArchetypesExist ==
    /\ Len(archetypes.archetypes) >= 2
    /\ \A a \in {0, 1} :
           /\ At(archetypes.archetypes, a).id = a
           /\ Archetype_components(At(archetypes.archetypes, a)) = {}

\* C18 (as stated): the empty archetype (id 0) and the resource archetype
\* (id 1) exist from construction on, and neither is ever an entry of the
\* identity map archetype_ids.
C18_ReservedArchetypes_AsStated ==
    /\ ReservedArchetypesExist
    /\ \A k \in DOMAIN archetypes.archetype_ids : archetypes.archetype_ids[k] \notin {0, 1}

\* C18 (amended): the empty archetype (id 0) and the resource archetype
\* (id 1) exist from construction on; the resource archetype is never an
\* entry of the identity map archetype_ids, and the empty archetype is its
\* entry for the empty slot lists from construction on.
C18_ReservedArchetypes ==
    /\ ReservedArchetypesExist
    /\ \A k \in DOMAIN archetypes.archetype_ids : archetypes.archetype_ids[k] # 1
    /\ <<<<>>, <<>>>> \in DOMAIN archetypes.archetype_ids
    /\ archetypes.archetype_ids[<<<<>>, <<>>>>] = 0

\* a strict removal of every slot of an entity took it back to the empty
\* archetype, which the identity map gave
C18_Witness ==
    /\ last.op = "remove_bundle" /\ ~last.panic /\ IsSome(last.ret)
    /\ last.loc[1].archetype_id # 0
    /\ LocationIn(World, last.entity[1])[1].archetype_id = 0
    /\ Len(archetypes.archetypes) > 2

\* C19: get_id_or_insert never returns ArchetypeId 1 for any slot lists, no
\* add or remove edge of any archetype leads to archetype 1, and the entity
\* list of the resource archetype is empty in every reachable state.
C19_ResourceArchetypeUnreachable ==
    /\ \A k \in Identities : \A t \in Indices(storages.tables.tables) :
           Archetypes_get_id_or_insert(archetypes, t, k[1], k[2]).id # 1
    /\ \A a \in Indices(archetypes.archetypes) :
           LET edges == At(archetypes.archetypes, a).edges IN
           /\ \A b \in DOMAIN edges.add_bundle : edges.add_bundle[b].archetype_id # 1
           /\ \A b \in DOMAIN edges.remove_bundle : edges.remove_bundle[b] # Some(1)
           /\ \A b \in DOMAIN edges.remove_bundle_intersection :
                  edges.remove_bundle_intersection[b] # Some(1)
    /\ At(archetypes.archetypes, 1).entities = <<>>
    /\ \A e \in LiveEntities : LocationIn(World, e)[1].archetype_id # 1

\* entities live in the empty archetype and in another one, and the
\* archetype graph has an add edge, a remove edge and an intersection edge
C19_Witness ==
    /\ At(archetypes.archetypes, 0).entities # <<>>
    /\ \E a \in Indices(archetypes.archetypes) \ {0, 1} :
           At(archetypes.archetypes, a).entities # <<>>
    /\ \E a \in Indices(archetypes.archetypes) :
           DOMAIN At(archetypes.archetypes, a).edges.add_bundle # {}
    /\ \E a \in Indices(archetypes.archetypes) :
           DOMAIN At(archetypes.archetypes, a).edges.remove_bundle # {}

\* C20 (as stated): any two archetypes with equal table_slots have the same
\* table_id, and an archetype with no table slots has the empty table,
\* TableId 0.
C20_TableSharedBySlots_AsStated ==
    \A a, b \in Indices(archetypes.archetypes) :
        LET x == At(archetypes.archetypes, a)
            y == At(archetypes.archetypes, b)
        IN /\ x.table_components = y.table_components
                  => x.table_info.id = y.table_info.id
           /\ x.table_components = <<>> => x.table_info.id = 0

\* a list of slots is strictly increasing in the order of (kind id, target)
StrictlySorted(v) == \A i, j \in DOMAIN v : i < j => SlotLess(v[i], v[j])

\* C21: for every archetype, table_slots and sparse_set_slots are each
\* strictly increasing in the order on (kind id, Option<Entity>), are
\* disjoint, and their union is exactly the set of slots the archetype
\* advertises: contains and components() agree with the union, and
\* get_storage_type is Table exactly for the table slots and SparseSet
\* exactly for the sparse-set slots.
C21_SlotListsSortedAndAdvertised ==
    \A a \in Indices(archetypes.archetypes) :
        LET archetype == At(archetypes.archetypes, a)
            table_slots == Range(archetype.table_components)
            sparse_set_slots == Range(archetype.sparse_set_components)
        IN /\ StrictlySorted(archetype.table_components)
           /\ StrictlySorted(archetype.sparse_set_components)
           /\ table_slots \cap sparse_set_slots = {}
           /\ Archetype_components(archetype) = table_slots \cup sparse_set_slots
           /\ \A s \in AllSlots :
                  /\ Archetype_contains(archetype, s[1], s[2])
                         <=> s \in table_slots \cup sparse_set_slots
                  /\ Archetype_get_storage_type(archetype, s[1], s[2]) = Some("Table")
                         <=> s \in table_slots
                  /\ Archetype_get_storage_type(archetype, s[1], s[2]) = Some("SparseSet")
                         <=> s \in sparse_set_slots
                  /\ Archetype_get_storage_type(archetype, s[1], s[2]) = None
                         <=> s \notin table_slots \cup sparse_set_slots

\* an insert made a new archetype by pushing a table slot that sorts after
\* every table slot of the archetype the entity was in
C21_Witness ==
    /\ last.op \in {"insert_bundle", "insert_relation"} /\ ~last.panic
    /\ LET old == At(archetypes.archetypes, last.loc[1].archetype_id)
           new == At(archetypes.archetypes, LocationIn(World, last.entity[1])[1].archetype_id)
       IN /\ new.id = Len(archetypes.archetypes) - 1
          /\ old.table_components # <<>>
          /\ Len(new.table_components) > Len(old.table_components)
          /\ \E s \in Range(new.table_components) \ Range(old.table_components) :
                 \A t \in Range(old.table_components) : SlotLess(t, s)

\* the bundle info of an insert call: a typed bundle T, or the relation
\* bundle of kind T[1] when the call names a target
CallInfo(bndls, T, target) ==
    IF target = None THEN Bundles_init_info(bndls, T)
    ELSE Bundles_init_relation_info(bndls, T[1], target)

\* the archetype graph of a world, with the archetype a walk has reached
GraphAt(w, id) ==
    [archetypes |-> w.archetypes, storages |-> w.storages, bundles |-> w.bundles,
     id |-> id]

\* one step of a walk: the bundle is registered and added to the archetype
\* the walk is at
AddCall(g, T, target) ==
    LET Registered(init) ==
            LET Added(added) ==
                    [archetypes |-> added.archetypes, storages |-> added.storages,
                     bundles |-> init.bundles, id |-> added.id]
            IN Added(add_bundle_to_archetype(g.archetypes, g.storages, g.id, init.info))
    IN Registered(CallInfo(g.bundles, T, target))

\* the walk goes on from archetype id
From(g, id) == [g EXCEPT !.id = id]

\* the single-slot insert calls: a component kind, or a relation to a live entity
SingleCalls(w) ==
    {<<k, None>> : k \in KindIds \ RelationKinds}
        \cup {<<k, Some(<<i, At(w.entities.meta, i).generation>>)>> :
                  k \in RelationKinds,
                  i \in {j \in Indices(w.entities.meta) :
                             At(w.entities.meta, j).location # NoLocation}}

\* from archetype a of world w, c1 then c2 and c2 then c1 end in the same
\* archetype, and so does one typed bundle listing both slots in either order
OrderInsensitiveFrom(w, a, c1, c2) ==
    LET First(g12) ==
            LET Second(g21) ==
                    /\ g21.id = g12.id
                    /\ (c1[2] = None /\ c2[2] = None) =>
                           LET Both(gb) ==
                                   /\ gb.id = g12.id
                                   /\ AddCall(From(gb, a), <<c2[1], c1[1]>>, None).id = g12.id
                           IN Both(AddCall(From(g21, a), <<c1[1], c2[1]>>, None))
            IN Second(AddCall(AddCall(From(g12, a), <<c2[1]>>, c2[2]), <<c1[1]>>, c1[2]))
    IN First(AddCall(AddCall(GraphAt(w, a), <<c1[1]>>, c1[2]), <<c2[1]>>, c2[2]))

\* the typed bundle or the relation an insert call was made with
CallOf(record) ==
    IF record.op = "insert_relation"
    THEN [T |-> <<record.bundle[1][1]>>, target |-> record.bundle[1][2]]
    ELSE [T |-> TypesOf(record.bundle), target |-> None]

\* C22: archetype identity is order-insensitive: in one world, from the same
\* archetype, inserting b1 then b2 leads to the same ArchetypeId as inserting
\* b2 then b1 and as inserting one bundle that lists the same slots in either
\* order; an entity that inserted b1 then b2 is in the archetype the other
\* order leads to, and two entities with equal slot sets are in the same
\* archetype.
C22_IdentityOrderInsensitive ==
    [][/\ \A a \in Indices(archetypes'.archetypes) \ {1} :
              \A c1, c2 \in SingleCalls(World') :
                  c1 # c2 => OrderInsensitiveFrom(World', a, c1, c2)
       /\ \A e1, e2 \in LiveEntities' :
              SlotSetIn(World', e1) = SlotSetIn(World', e2)
                  => LocationIn(World', e1)[1].archetype_id
                         = LocationIn(World', e2)[1].archetype_id
       /\ (/\ last'.op \in {"insert_bundle", "insert_relation"} /\ ~last'.panic
           /\ last.op \in {"insert_bundle", "insert_relation"}
           /\ last'.entity = last.entity)
              => LET b1 == CallOf(last)
                     b2 == CallOf(last')
                 IN AddCall(AddCall(GraphAt(World', last.loc[1].archetype_id),
                                    b2.T, b2.target), b1.T, b1.target).id
                        = LocationIn(World', last'.entity[1])[1].archetype_id]_vars

\* an entity got two bundles with different slots one after the other, each
\* of which took it to another archetype
C22_Witness ==
    /\ last.op \in {"insert_bundle", "insert_relation"} /\ ~last.panic
    /\ last.prev.op \in {"insert_bundle", "insert_relation"}
    /\ last.prev.entity = last.entity
    /\ Range(last.bundle) \cap Range(last.prev.bundle) = {}
    /\ Range(last.bundle) \cap DOMAIN last.pre = {}
    /\ Range(last.prev.bundle) \cap DOMAIN last.prev.pre = {}
    /\ last.bundle # <<>> /\ last.prev.bundle # <<>>

\* what never changes of an archetype: its id, its table and its slot lists
ArchetypeShape(archetype) ==
    <<archetype.id, archetype.table_info.id, archetype.table_components,
      archetype.sparse_set_components>>

\* C23: the ArchetypeGeneration value equals the number of archetypes, never
\* decreases, and increases exactly when a new archetype is created; no
\* archetype or table is ever removed, and the id, table_id and slot lists
\* of an existing archetype never change.
C23_ArchetypesMonotonic ==
    [][/\ Archetypes_generation(archetypes) = Len(archetypes.archetypes)
       /\ Archetypes_generation(archetypes') = Len(archetypes'.archetypes)
       /\ Archetypes_generation(archetypes') >= Archetypes_generation(archetypes)
       /\ Archetypes_generation(archetypes') > Archetypes_generation(archetypes)
              <=> \E k \in DOMAIN archetypes'.archetype_ids :
                      k \notin DOMAIN archetypes.archetype_ids
       /\ \A a \in Indices(archetypes.archetypes) :
              ArchetypeShape(At(archetypes'.archetypes, a))
                  = ArchetypeShape(At(archetypes.archetypes, a))
       /\ Len(storages'.tables.tables) >= Len(storages.tables.tables)
       /\ \A t \in Indices(storages.tables.tables) :
              DOMAIN At(storages'.tables.tables, t).columns
                  = DOMAIN At(storages.tables.tables, t).columns]_vars

\* archetypes and tables were created, and the last call moved an entity to
\* an archetype made before the one it left, creating none
C23_Witness ==
    /\ Archetypes_generation(archetypes) > 3
    /\ Len(storages.tables.tables) > 2
    /\ last.op \in Mutations /\ ~last.panic
    /\ LocationIn(World, last.entity[1]) # None
    /\ LocationIn(World, last.entity[1])[1].archetype_id < last.loc[1].archetype_id

\* the slots of an archetype in the order get_id_or_insert numbers them:
\* the table slots, then the sparse-set slots
NumberedSlots(archetype) == archetype.table_components \o archetype.sparse_set_components

\* the number of slots of the archetypes with an id below a
SlotsBefore(archs, a) ==
    LET Count[i \in 0 .. a] ==
            IF i = 0 THEN 0
            ELSE Count[i - 1] + Len(NumberedSlots(At(archs.archetypes, i - 1)))
    IN Count[a]

\* C24: ArchetypeComponentIds are unique per (archetype, slot): no two
\* distinct (archetype, slot) pairs share an id; the ids of one archetype
\* form a contiguous range, the table slots first and the sparse-set slots
\* after them; archetype_component_count equals the total number of slots of
\* all archetypes created through get_id_or_insert.
C24_ArchetypeComponentIdsUnique ==
    LET IdOf(a, s) ==
            Archetype_get_archetype_component_id(At(archetypes.archetypes, a), s[1], s[2])
        Pairs == {<<a, s>> : a \in Indices(archetypes.archetypes), s \in AllSlots}
        Held == {p \in Pairs : IdOf(p[1], p[2]) # None}
    IN /\ \A p, q \in Held : IdOf(p[1], p[2]) = IdOf(q[1], q[2]) => p = q
       /\ \A p \in Pairs :
              p \in Held <=> p[2] \in Range(NumberedSlots(At(archetypes.archetypes, p[1])))
       /\ \A a \in Indices(archetypes.archetypes) :
              LET slots == NumberedSlots(At(archetypes.archetypes, a)) IN
              \A i \in DOMAIN slots :
                  IdOf(a, slots[i]) = Some(SlotsBefore(archetypes, a) + i - 1)
       /\ archetypes.archetype_component_count
              = SlotsBefore(archetypes, Len(archetypes.archetypes))

\* two archetypes share a slot, and one of them has table slots and a
\* sparse-set slot
C24_Witness ==
    \E a, b \in Indices(archetypes.archetypes) :
        /\ a # b
        /\ Archetype_components(At(archetypes.archetypes, a))
               \cap Archetype_components(At(archetypes.archetypes, b)) # {}
        /\ At(archetypes.archetypes, b).table_components # <<>>
        /\ At(archetypes.archetypes, b).sparse_set_components # <<>>

\* the slot set of an archetype, from its two slot lists
SlotsOf(archetype) ==
    Range(archetype.table_components) \cup Range(archetype.sparse_set_components)

\* C25: for every archetype A and bundle b with an add_bundle edge, the
\* bundle_status of the edge has one entry per slot of b in bundle order,
\* entry i is Mutated if and only if slot i of b is in the slot set of A and
\* Added otherwise, the destination has the slot set slots(A) \cup slots(b),
\* and the destination is A itself iff every entry is Mutated.
C25_AddBundleEdges ==
    \A a \in Indices(archetypes.archetypes) :
        LET A == At(archetypes.archetypes, a) IN
        \A b \in DOMAIN A.edges.add_bundle :
            LET edge == A.edges.add_bundle[b]
                ids == At(bundles.bundle_infos, b).relation_ids
                D == At(archetypes.archetypes, edge.archetype_id)
            IN /\ b \in Indices(bundles.bundle_infos)
               /\ edge.archetype_id \in Indices(archetypes.archetypes)
               /\ DOMAIN edge.bundle_status = DOMAIN ids
               /\ \A i \in DOMAIN ids :
                      edge.bundle_status[i]
                          = IF ids[i] \in SlotsOf(A) THEN "Mutated" ELSE "Added"
               /\ SlotsOf(D) = SlotsOf(A) \cup Range(ids)
               /\ edge.archetype_id = a
                      <=> \A i \in DOMAIN ids : edge.bundle_status[i] = "Mutated"

\* an edge holds a status list with a Mutated and an Added entry, and an
\* edge of a bundle with slots leads back to its archetype
C25_Witness ==
    /\ \E a \in Indices(archetypes.archetypes) :
           \E b \in DOMAIN At(archetypes.archetypes, a).edges.add_bundle :
               Range(At(archetypes.archetypes, a).edges.add_bundle[b].bundle_status)
                   = {"Added", "Mutated"}
    /\ \E a \in Indices(archetypes.archetypes) :
           \E b \in DOMAIN At(archetypes.archetypes, a).edges.add_bundle :
               /\ At(archetypes.archetypes, a).edges.add_bundle[b].archetype_id = a
               /\ At(bundles.bundle_infos, b).relation_ids # <<>>

\* C26: for every archetype A and bundle b with a cached remove_bundle edge,
\* the edge is None if and only if some slot of b is absent from A, and when
\* it is Some(D) the slot set of D is exactly slots(A) \ slots(b).
C26_RemoveBundleEdges ==
    \A a \in Indices(archetypes.archetypes) :
        LET A == At(archetypes.archetypes, a) IN
        \A b \in DOMAIN A.edges.remove_bundle :
            LET edge == A.edges.remove_bundle[b]
                ids == At(bundles.bundle_infos, b).relation_ids
            IN /\ b \in Indices(bundles.bundle_infos)
               /\ edge = None <=> \E i \in DOMAIN ids : ids[i] \notin SlotsOf(A)
               /\ edge # None =>
                      /\ edge[1] \in Indices(archetypes.archetypes)
                      /\ SlotsOf(At(archetypes.archetypes, edge[1]))
                             = SlotsOf(A) \ Range(ids)

\* one archetype has a None edge for a bundle that shares a slot with it and
\* an edge to another archetype for a bundle it holds
C26_Witness ==
    \E a \in Indices(archetypes.archetypes) :
        LET A == At(archetypes.archetypes, a) IN
        /\ \E b \in DOMAIN A.edges.remove_bundle :
               /\ A.edges.remove_bundle[b] = None
               /\ Range(At(bundles.bundle_infos, b).relation_ids) \cap SlotsOf(A) # {}
        /\ \E b \in DOMAIN A.edges.remove_bundle :
               /\ A.edges.remove_bundle[b] # None
               /\ A.edges.remove_bundle[b] # Some(a)

\* the archetypes with no transition cached
Uncached(archs) ==
    [archs EXCEPT !.archetypes = [i \in DOMAIN @ |-> [@[i] EXCEPT !.edges = NoEdges]]]

\* the world with no transition cached
WithoutEdges(w) == [w EXCEPT !.archetypes = Uncached(@)]

\* the bundles a call can name: a typed bundle, or a relation to any handle
BundleCalls(w) ==
    {<<T, None>> : T \in BundleTypes}
        \cup {<< <<k>>, Some(<<i, g>>) >> :
                  k \in RelationKinds,
                  i \in Indices(w.entities.meta), g \in 0 .. MaxGeneration}

\* from every archetype and for every bundle, each of the three transitions
\* gives the same destination with the world's edges and without them
TransparentGraph(w) ==
    \A a \in Indices(w.archetypes.archetypes) \ {1} : \A c \in BundleCalls(w) :
        LET info == CallInfo(w.bundles, c[1], c[2]).info
            fresh == Uncached(w.archetypes)
        IN /\ add_bundle_to_archetype(w.archetypes, w.storages, a, info).id
                  = add_bundle_to_archetype(fresh, w.storages, a, info).id
           /\ remove_bundle_from_archetype(w.archetypes, w.storages, a, info, FALSE).result
                  = remove_bundle_from_archetype(fresh, w.storages, a, info, FALSE).result
           /\ remove_bundle_from_archetype(w.archetypes, w.storages, a, info, TRUE).result
                  = remove_bundle_from_archetype(fresh, w.storages, a, info, TRUE).result

\* the call a record describes, made on world w
Replay(w, record, tick) ==
    LET entity == record.entity[1]
        location == record.loc[1]
        slot == record.bundle[1]
    IN CASE record.op = "insert_bundle" ->
                insert_bundle(w, entity, location, TypesOf(record.bundle),
                              record.values, tick)
         [] record.op = "insert_relation" ->
                insert_relation(w, entity, location, slot[1], slot[2][1],
                                record.values[1], tick)
         [] record.op = "remove_bundle" ->
                remove_bundle(w, entity, location, TypesOf(record.bundle))
         [] record.op = "remove_relation" ->
                remove_relation(w, entity, location, slot[1], slot[2][1])
         [] record.op = "remove_bundle_intersection" ->
                remove_bundle_intersection(w, entity, location, TypesOf(record.bundle))

\* C27: the edge cache is transparent: for each of add_bundle, remove_bundle
\* and remove_bundle_intersection the destination a cached edge of archetype
\* A gives for bundle b is the destination a fresh computation gives, and a
\* call made on the world with its edges and on the world without them
\* leaves the same world but for the edges, with the same result.
C27_EdgeCacheTransparent ==
    [][/\ TransparentGraph(World')
       /\ last'.op \in Mutations \ {"despawn"} =>
              LET Same(fresh) ==
                      /\ fresh.panic = last'.panic
                      /\ ~fresh.panic =>
                             /\ WithoutEdges(fresh.world) = WithoutEdges(World')
                             /\ fresh.ret = last'.ret
              IN Same(Replay(WithoutEdges(World), last', change_tick))]_vars

\* a call followed a cached edge to another archetype: the call before it
\* was the same call on another entity in the same archetype
C27_Witness ==
    /\ last.op \in Mutations \ {"despawn"} /\ ~last.panic
    /\ last.prev.op = last.op /\ last.prev.bundle = last.bundle
    /\ last.prev.entity # last.entity
    /\ last.bundle # <<>>
    /\ DOMAIN last.prev.pre = DOMAIN last.pre
    /\ LocationIn(World, last.entity[1])[1].archetype_id # last.loc[1].archetype_id

\* the least multiple of g that is not below n
CeilMultiple(n, g) ==
    CHOOSE c \in {k * g : k \in 0 .. n} : c >= n /\ c - n < g

\* C28: for a table created with capacity 0 and grow_amount g > 0, after n
\* calls of Table::allocate with no removal in between, len() = n and
\* capacity() = ceil(n / g) * g (for g = 64 the capacity steps through 0, 64,
\* 128, 192, 256 and is 256 with 200 rows); the capacity is never below len
\* and never decreases, also across swap-removes and moves out of the table.
C28_TableCapacity ==
    [][\A t \in Indices(storages.tables.tables) :
           LET old == At(storages.tables.tables, t)
               new == At(storages'.tables.tables, t)
               history == last'.pre[t + 1]
           IN /\ new.capacity >= Len(new.entities)
              /\ new.capacity >= old.capacity
              /\ new.grow_amount = old.grow_amount
              /\ ~history.removed =>
                     /\ Len(new.entities) = history.allocated
                     /\ new.capacity = CeilMultiple(history.allocated, new.grow_amount)
              /\ new.grow_amount = GrowAmount =>
                     /\ new.capacity \in {k * GrowAmount : k \in 0 .. 4}
                     /\ new.capacity > old.capacity
                            => new.capacity = old.capacity + GrowAmount
                     /\ Len(new.entities) = TestRows => new.capacity = TestCapacity]_vars

\* the table of the test holds its 200 rows
C28_Witness ==
    /\ At(storages.tables.tables, 0).grow_amount = GrowAmount
    /\ Len(At(storages.tables.tables, 0).entities) = TestRows
    /\ At(storages.tables.tables, 0).capacity = TestCapacity
    /\ last.op = "allocate"

\* a slot list names a slot more than once
ListsTwice(slots) == \E i, j \in DOMAIN slots : i # j /\ slots[i] = slots[j]

\* C29: registering a typed bundle that lists the same component kind more
\* than once panics, and the failed registration allocates no BundleId:
\* bundle_ids and bundle_infos are unchanged by it.  A typed bundle without
\* a repeated kind is registered without a panic.
C29_DuplicateBundlePanics ==
    [][last'.op = "init_info" =>
           /\ last'.panic <=> ListsTwice(last'.bundle)
           /\ last'.panic =>
                  /\ bundles'.bundle_ids = bundles.bundle_ids
                  /\ bundles'.bundle_infos = bundles.bundle_infos
                  /\ last'.ret = None]_vars

\* a bundle with a repeated kind was registered in a registry that holds
\* bundles of that kind already
C29_Witness ==
    /\ last.op = "init_info" /\ last.panic
    /\ ListsTwice(last.bundle)
    /\ \E b \in Indices(bundles.bundle_infos) :
           Range(At(bundles.bundle_infos, b).relation_ids) \cap Range(last.bundle) # {}

\* the keys of the registry, typed bundles and relation bundles, each with
\* the BundleId the registry holds for it
RegistryKeys(bndls) ==
    {<<"typed", T, bndls.bundle_ids[T]>> : T \in DOMAIN bndls.bundle_ids}
        \cup {<<"relation", k, bndls.relation_bundle_ids[k]>> :
                  k \in DOMAIN bndls.relation_bundle_ids}

\* C30: init_info for the same bundle type and init_relation_info for the
\* same (kind, target) pair always return the same BundleId without growing
\* the registry; distinct keys have distinct BundleIds, also across typed
\* bundles and relation bundles; bundle_infos[i].id = i for every i; the
\* slot list of a typed bundle keeps the declaration order and a relation
\* bundle has exactly the one slot (kind, Some(target)).
C30_BundleIdsStable ==
    [][/\ RegistryKeys(bundles) \subseteq RegistryKeys(bundles')
       /\ \A x, y \in RegistryKeys(bundles') : x[3] = y[3] => x = y
       /\ \A i \in Indices(bundles'.bundle_infos) : At(bundles'.bundle_infos, i).id = i
       /\ \A T \in DOMAIN bundles'.bundle_ids :
              LET again == Bundles_init_info(bundles', T) IN
              /\ ~again.panic /\ again.bundles = bundles'
              /\ again.info.id = bundles'.bundle_ids[T]
              /\ again.info.relation_ids = [i \in DOMAIN T |-> <<T[i], None>>]
       /\ \A k \in DOMAIN bundles'.relation_bundle_ids :
              LET again == Bundles_init_relation_info(bundles', k[1], k[2]) IN
              /\ again.bundles = bundles'
              /\ again.info.id = bundles'.relation_bundle_ids[k]
              /\ again.info.relation_ids = <<k>>
              /\ k[2] # None
       /\ (last'.op \in {"init_info", "init_relation_info"} /\ ~last'.panic) =>
              /\ last'.ret # None
              /\ last'.ret[1] \in Indices(bundles'.bundle_infos)
              /\ At(bundles'.bundle_infos, last'.ret[1]).relation_ids = last'.bundle
              /\ Len(bundles'.bundle_infos) = Cardinality(RegistryKeys(bundles'))]_vars

\* a key registered before was registered again, in a registry that holds
\* typed bundles and relation bundles
C30_Witness ==
    /\ last.op \in {"init_info", "init_relation_info"} /\ ~last.panic
    /\ last.ret[1] < Len(bundles.bundle_infos) - 1
    /\ DOMAIN bundles.bundle_ids # {}
    /\ DOMAIN bundles.relation_bundle_ids # {}

\* the ticks of every cell the storage holds: the rows of every column of
\* every table and the entries of every sparse set
StoredTicks(w) ==
    UNION {UNION {Range(At(w.storages.tables.tables, t).columns[s].ticks) :
                      s \in DOMAIN At(w.storages.tables.tables, t).columns} :
               t \in Indices(w.storages.tables.tables)}
        \cup UNION {{w.storages.sparse_sets[s][i].ticks :
                         i \in DOMAIN w.storages.sparse_sets[s]} :
                        s \in DOMAIN w.storages.sparse_sets}

\* C31: insert_bundle and insert_relation at change tick t leave every slot
\* of the bundle that was not on the entity with added_tick = changed_tick =
\* t and every slot that was on it with its added_tick and changed_tick = t,
\* with or without a change of archetype, in tables and sparse sets alike;
\* every stored cell has added_tick <= changed_tick <= the current tick.
C31_InsertStampsTicks ==
    [][/\ \A ticks \in StoredTicks(World') :
              ticks.added <= ticks.changed /\ ticks.changed <= change_tick'
       /\ (last'.op \in {"insert_bundle", "insert_relation"} /\ ~last'.panic) =>
              LET e == last'.entity[1] IN
              \A s \in Range(last'.bundle) :
                  LET cell == GetWithTicksIn(World', e, s) IN
                  /\ cell # None
                  /\ cell[1].ticks.changed = change_tick
                  /\ cell[1].ticks.added =
                         IF s \in DOMAIN last'.pre
                         THEN last'.pre[s][1].ticks.added ELSE change_tick]_vars

\* an insert_bundle at a later tick that overwrote one slot, added one to a
\* table and moved the entity
C31_Witness ==
    /\ last.op = "insert_bundle" /\ ~last.panic
    /\ \E s \in Range(last.bundle) \cap DOMAIN last.pre :
           last.pre[s][1].ticks.added < change_tick
    /\ Range(last.bundle) \ DOMAIN last.pre # {}
    /\ LocationIn(World, last.entity[1]) # last.loc

\* an insert_bundle that wrote a sparse-set slot in place for the second time
C31_WitnessSparse ==
    /\ last.op = "insert_bundle" /\ ~last.panic
    /\ \E s \in Range(last.bundle) \cap DOMAIN last.pre :
           StorageTypeOf(s[1]) = "SparseSet" /\ last.pre[s][1].ticks.added < change_tick
    /\ LocationIn(World, last.entity[1]) = last.loc

\* C32: new_relationship_kind panics exactly when it is given a type token
\* that is already registered; with no token or a new token it returns the
\* number of kinds registered before the call, the id of the kind it adds;
\* the default registry holds exactly the kinds HasComponent and HasResource,
\* with different ids.
C32_NewRelationshipKind ==
    /\ Len(components.kinds) = 2
    /\ DOMAIN components.kind_indices = {"HasComponent", "HasResource"}
    /\ relkind_of_has_component(components) # relkind_of_has_resource(components)
    /\ {relkind_of_has_component(components), relkind_of_has_resource(components)}
           = {components.kinds[i].id : i \in DOMAIN components.kinds}
    /\ [][last'.op = "new_relationship_kind" =>
              LET type_id == last'.values[1]
                  before == last'.pre
              IN /\ last'.panic <=>
                        (type_id # None /\ type_id[1] \in DOMAIN before.kind_indices)
                 /\ ~last'.panic =>
                        /\ last'.ret = Len(before.kinds)
                        /\ \A i \in DOMAIN before.kinds : before.kinds[i].id # last'.ret
                        /\ components'.kinds = Append(before.kinds, [id |-> last'.ret])
                        /\ type_id # None =>
                               components'.kind_indices
                                   = MapInsert(before.kind_indices, type_id[1], last'.ret)
                        /\ type_id = None =>
                               components'.kind_indices = before.kind_indices]_vars

\* a call with a registered token, after a call that added a third kind
C32_Witness ==
    /\ last.op = "new_relationship_kind" /\ last.panic
    /\ Len(last.pre.kinds) > 2
    /\ last.values[1] # None

\* the registry keeps its ids dense: the info at index i has id i, and the
\* index maps every registered relationship to the info that carries it
DenseRegistry(c) ==
    /\ \A i \in Indices(c.components) : At(c.components, i).id = i
    /\ \A r \in DOMAIN c.component_indices :
           /\ c.component_indices[r] \in Indices(c.components)
           /\ At(c.components, c.component_indices[r]).relationship = r
    /\ \A r1, r2 \in DOMAIN c.component_indices :
           c.component_indices[r1] = c.component_indices[r2] => r1 = r2
    /\ Cardinality(DOMAIN c.component_indices) = Len(c.components)

\* C39: register_relationship on a registered relationship returns
\* ComponentAlreadyExists and leaves the registry as it was;
\* get_relationship_info_or_insert_with on a registered relationship returns
\* its ComponentId and does not run the layout closure; in every state
\* components[i].id = i and different relationships have different ids, so a
\* type registered as a component and as a resource has two ComponentIds
\* whose relationships name the one DummyId of the type.
C39_RegistryDenseAndIdempotent ==
    [][/\ DenseRegistry(components')
       /\ LET before == last'.pre
              registered == last'.values[1] \in DOMAIN before.component_indices
          IN /\ (last'.op = "register_relationship" /\ registered) =>
                    /\ ~last'.panic
                    /\ last'.ret.result = "ComponentAlreadyExists"
                    /\ components' = before
             /\ (last'.op = "get_relationship_info_or_insert_with" /\ registered) =>
                    /\ ~last'.panic
                    /\ last'.ret.id = Some(before.component_indices[last'.values[1]])
                    /\ ~last'.ret.invoked
                    /\ components' = before
             /\ (last'.op \in {"get_resource_info_or_insert",
                               "get_component_info_or_insert"} /\ ~last'.panic) =>
                    LET type_id == last'.values[1]
                        kind == IF last'.op = "get_resource_info_or_insert"
                                THEN relkind_of_has_resource(before)
                                ELSE relkind_of_has_component(before)
                        info == At(components'.components, last'.ret.id[1])
                    IN /\ type_id \in DOMAIN components'.typeid_to_component_id
                       /\ type_id \in DOMAIN before.typeid_to_component_id =>
                              components'.typeid_to_component_id[type_id]
                                  = before.typeid_to_component_id[type_id]
                       /\ info.relationship =
                              [kind |-> kind,
                               target |-> <<"DummyId",
                                            components'.typeid_to_component_id[type_id]>>]
                       /\ \A other \in DOMAIN components'.component_indices :
                              other # info.relationship =>
                                  components'.component_indices[other] # info.id]_vars

\* a type registered as a component and then as a resource: two ids, one
\* DummyId
C39_Witness ==
    /\ last.op = "get_resource_info_or_insert" /\ ~last.panic
    /\ LET type_id == last.values[1]
           dummy == <<"DummyId", components.typeid_to_component_id[type_id]>>
           as_component == [kind |-> relkind_of_has_component(components), target |-> dummy]
           as_resource == [kind |-> relkind_of_has_resource(components), target |-> dummy]
       IN /\ as_component \in DOMAIN components.component_indices
          /\ as_resource \in DOMAIN components.component_indices
          /\ components.component_indices[as_component]
                 # components.component_indices[as_resource]
          /\ last.ret.invoked

\* a register_relationship that was refused
C39_WitnessRefused ==
    /\ last.op = "register_relationship" /\ ~last.panic
    /\ last.ret.result = "ComponentAlreadyExists"

\* the table slots of the archetype an entity is in
TableSlotsIn(w, entity) ==
    Range(At(w.archetypes.archetypes,
             LocationIn(w, entity)[1].archetype_id).table_components)

\* the entities vector of every table
TableEntities(w) ==
    [t \in Indices(w.storages.tables.tables) |-> At(w.storages.tables.tables, t).entities]

\* C33 (as stated): an insert or a remove that leaves the table slots of the
\* entity as they were keeps the entity in its table and row: no table's
\* entities vector changes, and the archetype the entity is in afterwards
\* records the table row it had.
C33_SparseOnlyChangeKeepsRow_AsStated ==
    [][(/\ last'.op \in {"insert_bundle", "insert_relation", "remove_bundle",
                         "remove_relation", "remove_bundle_intersection"}
        /\ ~last'.panic
        /\ TableSlotsIn(World', last'.entity[1]) = TableSlotsIn(World, last'.entity[1]))
       => /\ TableRowIn(World', last'.entity[1]) = last'.row
          /\ \A t \in Indices(storages.tables.tables) :
                 TableEntities(World')[t] = TableEntities(World)[t]]_vars

\* the index of a slot in the bundle of a call
BundleIndex(bundle, s) == CHOOSE i \in DOMAIN bundle : bundle[i] = s

\* C34: an insert that moves the entity to another table finds a column in
\* the new table for every column of the old one, and when it is done every
\* column of the new table holds at the new row the value and ticks moved
\* from the old row or the value written from the bundle; the insert never
\* panics.
C34_SupersetMoveWritesEveryCell ==
    [][last'.op \in {"insert_bundle", "insert_relation"} =>
          /\ ~last'.panic
          /\ LET e == last'.entity[1]
                 from == last'.row[1]
                 to == TableRowIn(World', e)[1]
                 old_table == At(storages'.tables.tables, from.table_id)
                 new_table == At(storages'.tables.tables, to.table_id)
             IN from.table_id # to.table_id =>
                    /\ SupersetHolds(old_table, new_table)
                    /\ At(new_table.entities, to.table_row) = e
                    /\ \A s \in DOMAIN new_table.columns :
                           LET value == At(new_table.columns[s].data, to.table_row)
                               ticks == At(new_table.columns[s].ticks, to.table_row)
                           IN IF s \in Range(last'.bundle)
                              THEN /\ value = last'.values[BundleIndex(last'.bundle, s)]
                                   /\ ticks.changed = change_tick
                              ELSE /\ s \in DOMAIN last'.pre
                                   /\ value = last'.pre[s][1].value
                                   /\ ticks = last'.pre[s][1].ticks]_vars

\* an insert that moved an entity with a table component to a table with one
\* more column, at a later tick than the component was written
C34_Witness ==
    /\ last.op \in {"insert_bundle", "insert_relation"} /\ ~last.panic
    /\ last.row[1].table_id # TableRowIn(World, last.entity[1])[1].table_id
    /\ \E s \in DOMAIN last.pre \ Range(last.bundle) :
           /\ StorageTypeOf(s[1]) = "Table"
           /\ last.pre[s][1].ticks.changed < change_tick
    /\ \E s \in Range(last.bundle) \ DOMAIN last.pre : StorageTypeOf(s[1]) = "Table"

\* C35: in every run of insert_bundle, insert_relation, remove_bundle,
\* remove_relation and remove_bundle_intersection on live entities, neither
\* Archetypes::get_2_mut nor Tables::get_2_mut gets two equal ids: the
\* panic does not happen, and no other panic does.
C35_Get2MutNeverSameIds ==
    [][last'.op \in {"insert_bundle", "insert_relation", "remove_bundle",
                     "remove_relation", "remove_bundle_intersection"}
          => ~last'.panic]_vars

\* a removal that took both tables of the entity from Tables::get_2_mut and
\* came back to an archetype whose table slots are those it left
C35_Witness ==
    /\ last.op \in {"remove_bundle", "remove_relation", "remove_bundle_intersection"}
    /\ ~last.panic
    /\ last.row[1].table_id # TableRowIn(World, last.entity[1])[1].table_id
    /\ \A s \in DOMAIN last.pre \ SlotSetIn(World, last.entity[1]) :
           StorageTypeOf(s[1]) = "SparseSet"

\* a row of a table: its entity and, per column, the value with its ticks
RowAt(table, i) ==
    [entity |-> At(table.entities, i),
     cells |-> [s \in DOMAIN table.columns |->
                   [value |-> At(table.columns[s].data, i),
                    ticks |-> At(table.columns[s].ticks, i)]]]

\* C36: each of the three Table::move_to_* functions, moving row r of src to
\* dst, puts the moved entity at dst.entities[new_row]; every column both
\* tables have holds at new_row the value and the ticks src held at r; the
\* rows dst held are untouched; src loses exactly row r, the last row taking
\* its place; swapped_entity is the entity now at r in src, or None when r
\* was the last row.
C36_MovesCarryValueAndTicks ==
    [][(last'.op \in {"superset", "forget_missing", "drop_missing"} /\ ~last'.panic) =>
          LET t == last'.row[1].table_id
              r == last'.row[1].table_row
              src == At(storages.tables.tables, t)
              dst == At(storages.tables.tables, 1 - t)
              src_after == At(storages'.tables.tables, t)
              dst_after == At(storages'.tables.tables, 1 - t)
              new_row == last'.ret[1].new_row
              last_row == Len(src.entities) - 1
          IN /\ new_row = Len(dst.entities)
             /\ Len(dst_after.entities) = Len(dst.entities) + 1
             /\ RowAt(dst_after, new_row).entity = RowAt(src, r).entity
             /\ \A s \in DOMAIN src.columns \cap DOMAIN dst.columns :
                    RowAt(dst_after, new_row).cells[s] = RowAt(src, r).cells[s]
             /\ \A i \in Indices(dst.entities) : RowAt(dst_after, i) = RowAt(dst, i)
             /\ Len(src_after.entities) = last_row
             /\ \A s \in DOMAIN src_after.columns :
                    /\ Len(src_after.columns[s].data) = last_row
                    /\ Len(src_after.columns[s].ticks) = last_row
             /\ \A i \in Indices(src_after.entities) :
                    RowAt(src_after, i) = RowAt(src, IF i = r THEN last_row ELSE i)
             /\ last'.ret[1].swapped_entity =
                    IF r = last_row THEN None ELSE Some(At(src_after.entities, r))]_vars

\* a move of a row that was not the last of its table, between tables that
\* share a written column, into a table that already held a row
C36_Witness ==
    /\ last.op \in {"superset", "forget_missing", "drop_missing"} /\ ~last.panic
    /\ IsSome(last.ret[1].swapped_entity)
    /\ last.ret[1].new_row > 0
    /\ LET dst == At(storages.tables.tables, 1 - last.row[1].table_id)
       IN \E s \in DOMAIN dst.columns :
              /\ s \in DOMAIN At(storages.tables.tables, last.row[1].table_id).columns
              /\ At(dst.columns[s].ticks, last.ret[1].new_row).added > 1

\* C37: sorted_remove(source, remove) on strictly increasing lists leaves in
\* source exactly the elements of source that do not occur in remove, in
\* their order; elements of remove that are not in source change nothing,
\* and a list removed from itself leaves the empty list.
C37_SortedRemove ==
    last.op = "sorted_remove" =>
        LET source == last.bundle
            remove == last.values
            result == last.ret[1]
            kept == {i \in DOMAIN source : source[i] \notin Range(remove)}
        IN /\ StrictlySorted(source) /\ StrictlySorted(remove)
           /\ Len(result) = Cardinality(kept)
           /\ \A j \in DOMAIN result :
                  result[j] = source[CHOOSE i \in kept :
                                         Cardinality({k \in kept : k < i}) = j - 1]
           /\ Range(result) = Range(source) \ Range(remove)
           /\ remove = source => result = <<>>
           /\ Range(remove) \cap Range(source) = {} => result = source

\* a call that removed some elements, kept some, and passed over elements of
\* remove that source lacks, before and after the elements it removed
C37_Witness ==
    /\ last.op = "sorted_remove"
    /\ last.ret[1] # <<>>
    /\ Len(last.ret[1]) < Len(last.bundle)
    /\ \E i, j, k \in DOMAIN last.values :
           /\ i < j /\ j < k
           /\ last.values[i] \notin Range(last.bundle)
           /\ last.values[j] \in Range(last.bundle)
           /\ last.values[k] \notin Range(last.bundle)

\* the sub-filters whose state matches the archetype or table with the id
MatchingSubFilters(state, w, mode, id) ==
    {i \in DOMAIN state :
        IF mode = "table"
        THEN FilterState_matches_table(state[i], At(w.storages.tables.tables, id))
        ELSE FilterState_matches_archetype(state[i], At(w.archetypes.archetypes, id))}

\* what the fetch of one sub-filter returns on its own: initialised, set to
\* the archetype or table, and asked for the row
OwnFetch(state, w, mode, id, index, last_change_tick, this_tick) ==
    LET init == Fetch_init(w, state, last_change_tick, this_tick).fetch
        set == IF mode = "table" THEN Fetch_set_table(init, state, w, id)
               ELSE Fetch_set_archetype(init, state, w, id)
    IN SubFetch(set.fetch, w, mode, index)

\* C38: Or over F1..Fn matches an archetype (table) exactly when some Fi
\* matches it; set_archetype (set_table) sets up the fetch of the matching
\* sub-filters and of no other; the archetype_fetch (table_fetch) that follows
\* returns true exactly when some sub-filter that matches the current
\* archetype (table) returns true from its own fetch, and it consults matching
\* sub-filters only; With<T> and Without<T> disagree on every archetype and
\* on every table.
C38_OrMatchesAndFetches ==
    [][LET r == last'
           w == World'
           Matching == MatchingSubFilters(r.state, w, r.current[1][1], r.current[1][2])
           Yes(i) == OwnFetch(r.state[i], w, r.current[1][1], r.current[1][2],
                              r.index[1], change_tick - 1, change_tick)
                         = {[ret |-> TRUE, panic |-> FALSE]}
       IN /\ r.op = "matches_archetype" =>
                 r.ret = Some(MatchingSubFilters(r.state, w, "archetype", r.index[1]) # {})
          /\ r.op = "matches_table" =>
                 r.ret = Some(MatchingSubFilters(r.state, w, "table", r.index[1]) # {})
          /\ r.op \in {"set_archetype", "set_table"} =>
                 /\ ~r.panic
                 /\ r.set_up = Matching
                 /\ \A i \in DOMAIN r.fetch :
                        /\ r.fetch[i].matches <=> i \in Matching
                        /\ i \notin Matching => r.fetch[i].fetch = last.fetch[i].fetch
          /\ r.op \in {"archetype_fetch", "table_fetch"} =>
                 /\ ~r.panic
                 /\ Range(r.consulted) \subseteq Matching
                 /\ r.ret = Some(\E i \in Matching : Yes(i))
          /\ \A k \in KindIds :
                 /\ \A a \in Range(w.archetypes.archetypes) :
                        FilterState_matches_archetype(FilterState_init("With", k), a)
                            <=> ~FilterState_matches_archetype(
                                     FilterState_init("Without", k), a)
                 /\ \A t \in Range(w.storages.tables.tables) :
                        FilterState_matches_table(FilterState_init("With", k), t)
                            <=> ~FilterState_matches_table(
                                     FilterState_init("Without", k), t)]_vars

\* an archetype_fetch returned true although one sub-filter, whose fetch an
\* earlier set_archetype had set to another archetype, does not match the
\* current one
C38_Witness ==
    /\ last.op = "archetype_fetch"
    /\ last.ret = Some(TRUE)
    /\ Len(last.fetch) = MaxSubFilters
    /\ \E i \in DOMAIN last.fetch :
           /\ ~last.fetch[i].matches
           /\ last.fetch[i].fetch.entities # None

\* the slots a sparse set can be asked for: those of the sparse-set kinds
SparseSlots == {s \in AllSlots : StorageTypeOf(s[1]) = "SparseSet"}

\* the ids the sparse set of the slot holds an entry for
SparseEntries(w, slot) ==
    IF slot \in DOMAIN w.storages.sparse_sets
    THEN DOMAIN w.storages.sparse_sets[slot] ELSE {}

\* the ids of the live entities whose archetype lists the slot among its
\* sparse-set slots
SparseOwners(w, slot) ==
    {i \in Indices(w.entities.meta) :
        LET location == LocationIn(w, <<i, At(w.entities.meta, i).generation>>)
        IN /\ location # None
           /\ slot \in Range(At(w.archetypes.archetypes, location[1].archetype_id)
                                 .sparse_set_components)}

SparseMembership(w) ==
    \A slot \in SparseSlots : SparseEntries(w, slot) = SparseOwners(w, slot)

\* C40: the sparse set of a sparse-set slot holds an entry for an entity
\* exactly when the entity is live and its archetype lists the slot among its
\* sparse-set slots; remove_bundle, remove_bundle_intersection and despawn
\* leave no entry of the entity for a slot they removed, and a freshly
\* spawned entity has no entry even when it reuses an id.
C40_SparseMembershipFollowsArchetype ==
    /\ SparseMembership(World)
    /\ [][/\ SparseMembership(World')
          /\ (last'.op = "despawn" /\ ~last'.panic) =>
                 \A slot \in SparseSlots : last'.entity[1][1] \notin SparseEntries(World', slot)
          /\ (last'.op = "remove_bundle_intersection" /\ ~last'.panic) =>
                 \A slot \in SparseSlots \cap Range(last'.bundle) :
                     last'.entity[1][1] \notin SparseEntries(World', slot)
          /\ (last'.op = "remove_bundle" /\ ~last'.panic /\ last'.ret # None) =>
                 \A slot \in SparseSlots \cap Range(last'.bundle) :
                     last'.entity[1][1] \notin SparseEntries(World', slot)
          /\ (last'.op = "spawn" /\ ~last'.panic) =>
                 \A slot \in SparseSlots : last'.ret[1][1] \notin SparseEntries(World', slot)]_vars

\* an entity that held a sparse-set component was despawned and its id was
\* given to the entity spawned next
C40_Witness ==
    /\ last.op = "spawn"
    /\ last.ret # None
    /\ last.ret[1][2] > 0
    /\ last.prev.op = "despawn"
    /\ last.prev.entity = Some(<<last.ret[1][1], last.ret[1][2] - 1>>)
    /\ \E slot \in SparseSlots : slot \in DOMAIN last.prev.pre

====
